---- MODULE Spec2Model ----
(***************************************************************************)
(* Maze generators of the maze hackathon repository.                       *)
(*                                                                         *)
(* A grid is modelled by the set of its passage cells (grid[y][x] === 0);  *)
(* every other cell of the height x width rectangle is a wall.  A cell is  *)
(* the pair <<y, x>>, 0-indexed as in the generators.  Math.random() is a  *)
(* nondeterministic choice: an operator with random draws yields the set   *)
(* of all its possible results.                                            *)
(***************************************************************************)
EXTENDS Integers, Sequences, FiniteSets, TLC

VARIABLES pc, height, width, grid, start, end, gridIn, gridMid, conn1, conn2,
          attempts, maze, branch, connectivityInfo, accessibilityInfo,
          finalCheck, file, artifacts, rng, walls,
          mazeGrid, solutionPath, solution, validation, leaderboard, submitted,
          operations, runs

(* The variables of the runs of single functions.                          *)
fnVars == <<height, width, grid, start, end, gridIn, gridMid, conn1, conn2>>

(* The mazes generateHedgeMaze(size, size) can return, computed once, the   *)
(* state of the random stream of the challenge and anti-bot generators,    *)
(* and the wall list of the Prim loop of generateHedgeMaze.                *)
genVars == <<artifacts, rng, walls>>

(* The variables of main().                                                *)
mainVars == <<attempts, maze, branch, connectivityInfo, accessibilityInfo,
              finalCheck, file>>

(* The variables of the competition tools: the character grid a loader    *)
(* returns, a path, a solution file, a validation result, the leaderboard, *)
(* the fastest time submitted so far for each team and maze, the number of *)
(* leaderboard commands run so far, and the leaderboard commands running   *)
(* at the same time, each with its position and the leaderboard it read.   *)
toolVars == <<mazeGrid, solutionPath, solution, validation, leaderboard, submitted,
              operations, runs>>

vars == <<pc, fnVars, mainVars, genVars, toolVars>>

(* The generators leave the variables of the tools at these values.        *)
ToolsUnused ==
  /\ mazeGrid = <<>>
  /\ solutionPath = <<>>
  /\ solution = <<>>
  /\ validation = <<>>
  /\ leaderboard = <<>>
  /\ submitted = <<>>
  /\ operations = 0
  /\ runs = <<>>

----------------------------------------------------------------------------
(* Arithmetic helpers: Math.abs, Math.sign, Math.min, Math.max.            *)

Abs(n) == IF n < 0 THEN -n ELSE n

Sign(n) == IF n > 0 THEN 1 ELSE IF n < 0 THEN -1 ELSE 0

Min(a, b) == IF a < b THEN a ELSE b

Max(a, b) == IF a > b THEN a ELSE b

Range(s) == {s[i] : i \in 1..Len(s)}

(* The four directions, in the order every BFS of the generators uses.     *)
Dirs == << <<-1, 0>>, <<1, 0>>, <<0, -1>>, <<0, 1>> >>

Step(c, d) == <<c[1] + d[1], c[2] + d[2]>>

InGrid(h, w, c) == c[1] >= 0 /\ c[1] < h /\ c[2] >= 0 /\ c[2] < w

Cells(h, w) == (0..(h - 1)) \X (0..(w - 1))

Manhattan(a, b) == Abs(a[1] - b[1]) + Abs(a[2] - b[2])

(* Row-major scan of a set of cells: for y ... for x ...                    *)
RowMajor(S, h, w) ==
  LET all == [i \in 1..(h * w) |-> <<(i - 1) \div w, (i - 1) % w>>]
  IN SelectSeq(all, LAMBDA c : c \in S)

(* Appends the elements of sequence t that are not yet in s, each once, in *)
(* the order they first occur in t: Set.add in insertion order.            *)
AddAll(s, t) ==
  LET fresh == SelectSeq([i \in 1..Len(t) |-> i],
                         LAMBDA i : t[i] \notin Range(s) /\ \A j \in 1..(i - 1) : t[j] # t[i])
  IN s \o [k \in 1..Len(fresh) |-> t[fresh[k]]]

----------------------------------------------------------------------------
(* Math.random().  A draw is k / levels for some k in 0..levels-1; the     *)
(* operators below give the set of values an expression of the draw can    *)
(* take.                                                                   *)

(* Number of values a draw of the Prim loop ranges over.                   *)
PrimLevels == 1

(* Number of values every other draw ranges over.                          *)
RandomLevels == 2

(* Math.floor(Math.random() * n)                                           *)
RandomIntAt(levels, n) == {(k * n) \div levels : k \in 0..(levels - 1)}

RandomInt(n) == RandomIntAt(RandomLevels, n)

(* Math.random() < num / den                                               *)
RandomBelow(num, den) == {k * den < num * RandomLevels : k \in 0..(RandomLevels - 1)}

(* Passage neighbours of c; cells outside the grid are never in g.         *)
OpenNeighbours(g, c) == {n \in {Step(c, Dirs[i]) : i \in 1..4} : n \in g}

(* In-grid wall neighbours of c.                                           *)
WallNeighbours(g, h, w, c) ==
  {n \in {Step(c, Dirs[i]) : i \in 1..4} : InGrid(h, w, n) /\ n \notin g}

Border(h, w) == {c \in Cells(h, w) : c[1] = 0 \/ c[1] = h - 1 \/ c[2] = 0 \/ c[2] = w - 1}

----------------------------------------------------------------------------
(* Breadth-first search shared by the hedge generator's helpers.           *)

(* Open in-bounds neighbours of c not yet in seen, in direction order.     *)
NewNeighbours(g, h, w, c, seen) ==
  SelectSeq([i \in 1..4 |-> Step(c, Dirs[i])],
            LAMBDA n : InGrid(h, w, n) /\ n \in g /\ n \notin seen)

(* The queue of a BFS after it has run dry: queue[i] is the i-th cell      *)
(* dequeued.  seen is the visited set.                                     *)
RECURSIVE BfsRun(_, _, _, _, _, _)
BfsRun(g, h, w, queue, i, seen) ==
  IF i > Len(queue) THEN queue
  ELSE LET new == NewNeighbours(g, h, w, queue[i], seen)
       IN BfsRun(g, h, w, queue \o new, i + 1, seen \cup Range(new))

(* BFS whose visited set is built with new Set([key]): the start is        *)
(* visited from the beginning.                                             *)
BfsFrom(g, h, w, s) == BfsRun(g, h, w, <<s>>, 1, {s})

(* BFS whose visited set is built with new Set(`${y},${x}`): the set holds *)
(* the characters of the key, never the key, so the start is not visited   *)
(* and is queued a second time when a neighbour discovers it.              *)
BfsFromCharSet(g, h, w, s) == BfsRun(g, h, w, <<s>>, 1, {})

(* Cells a BFS with the character-set start has added to visited.          *)
VisitedCharSet(g, h, w, s) == Range(Tail(BfsFromCharSet(g, h, w, s)))

----------------------------------------------------------------------------
(* Connectivity verification and repair of the hedge generator.            *)

(* The cells carved by the corridor loops of the repair functions: from c, *)
(* step along the axis with the larger remaining distance (x on a tie)     *)
(* until the target t is reached; every cell stepped on, t included, is    *)
(* set to passage.                                                         *)
RECURSIVE CarvePath(_, _)
CarvePath(c, t) ==
  IF c = t THEN <<>>
  ELSE LET n == IF Abs(c[1] - t[1]) > Abs(c[2] - t[2])
                THEN <<c[1] + Sign(t[1] - c[1]), c[2]>>
                ELSE <<c[1], c[2] + Sign(t[2] - c[2])>>
       IN <<n>> \o CarvePath(n, t)

(* First element of the non-empty sequence s at minimal Manhattan distance *)
(* from c: the loop "if (distance < minDistance)" over a Set in insertion  *)
(* order.                                                                  *)
Nearest(s, c) ==
  LET i == CHOOSE i \in 1..Len(s) :
             /\ \A j \in 1..Len(s) : Manhattan(s[i], c) <= Manhattan(s[j], c)
             /\ \A j \in 1..(i - 1) : Manhattan(s[j], c) > Manhattan(s[i], c)
  IN s[i]

(* The 2x2 block at scan position k of breakUpLargeOpenAreas, row-major    *)
(* over 1 <= y < height-2, 1 <= x < width-2, in the order of the position  *)
(* draw: (y, x), (y, x+1), (y+1, x), (y+1, x+1).                           *)
Block(k, w) ==
  LET y == 1 + (k \div (w - 3))
      x == 1 + (k % (w - 3))
  IN << <<y, x>>, <<y, x + 1>>, <<y + 1, x>>, <<y + 1, x + 1>> >>

(* The scan from position k on with n open areas found so far: the next    *)
(* all-passage block gets the cell at a random position turned into a wall *)
(* and the scan goes on behind it.  The result is the set of possible      *)
(* <<grid, openAreasFound>>.                                               *)
RECURSIVE BreakScan(_, _, _, _, _)
BreakScan(g, k, n, h, w) ==
  LET found == {j \in k..((h - 3) * (w - 3) - 1) : Range(Block(j, w)) \subseteq g}
  IN IF h <= 3 \/ w <= 3 \/ found = {} THEN {<<g, n>>}
     ELSE LET j == CHOOSE i \in found : \A i2 \in found : i <= i2
          IN UNION {BreakScan(g \ {Block(j, w)[p + 1]}, j + 1, n + 1, h, w)
                    : p \in RandomInt(4)}

(* Variant: the scan leaves out the block at the first position.           *)
breakUpLargeOpenAreasFromSecond(g, h, w) == BreakScan(g, 1, 0, h, w)

breakUpLargeOpenAreas(g, h, w) == BreakScan(g, 0, 0, h, w)

(* verifyFullConnectivity: the open cells the BFS from s did not add to    *)
(* visited.  The BFS never tests grid[s] itself.                           *)
UnreachableCells(g, h, w, s) == g \ VisitedCharSet(g, h, w, s)

(* ensureFullConnectivity, step 4: connect one isolated region.  st is     *)
(* <<grid, reachable (insertion order), connectionsAdded>>.                *)
ConnectRegion(st, region) ==
  LET reach == st[2]
      best == CHOOSE p \in (1..Len(region)) \X (1..Len(reach)) :
                /\ \A q \in (1..Len(region)) \X (1..Len(reach)) :
                     Manhattan(region[p[1]], reach[p[2]])
                       <= Manhattan(region[q[1]], reach[q[2]])
                /\ \A q \in (1..Len(region)) \X (1..Len(reach)) :
                     (q[1] < p[1] \/ (q[1] = p[1] /\ q[2] < p[2]))
                       => Manhattan(region[q[1]], reach[q[2]])
                            > Manhattan(region[p[1]], reach[p[2]])
      path == CarvePath(region[best[1]], reach[best[2]])
  IN <<st[1] \cup Range(path), AddAll(reach, path), st[3] + 1>>

RECURSIVE ConnectRegions(_, _)
ConnectRegions(st, regions) ==
  IF regions = <<>> THEN st
  ELSE ConnectRegions(ConnectRegion(st, Head(regions)), Tail(regions))

(* The isolated regions, in the order their first cell appears in the      *)
(* row-major list of unreachable cells; each region in BFS order.          *)
RECURSIVE IsolatedRegions(_, _, _, _, _)
IsolatedRegions(g, h, w, cells, done) ==
  IF cells = <<>> THEN <<>>
  ELSE IF Head(cells) \in done THEN IsolatedRegions(g, h, w, Tail(cells), done)
  ELSE LET region == BfsFrom(g, h, w, Head(cells))
       IN <<region>> \o IsolatedRegions(g, h, w, Tail(cells), done \cup Range(region))

(* The corridors the brute-force loop of ensureFullConnectivity can carve  *)
(* from c to t: at each step Math.random() picks the axis among those with *)
(* distance left.  Each result is the set of cells carved.                 *)
RECURSIVE RandomPaths(_, _)
RandomPaths(c, t) ==
  IF c = t THEN {{}}
  ELSE LET ny == <<c[1] + Sign(t[1] - c[1]), c[2]>>
           nx == <<c[1], c[2] + Sign(t[2] - c[2])>>
       IN (IF c[1] # t[1] THEN {{ny} \cup p : p \in RandomPaths(ny, t)} ELSE {})
          \cup (IF c[2] # t[2] THEN {{nx} \cup p : p \in RandomPaths(nx, t)} ELSE {})

(* Brute-force pass over the cells still unreachable after step 4.  S is   *)
(* the set of <<grid, connectionsAdded>> reached so far; finalReachable is *)
(* not updated inside the loop.                                            *)
RECURSIVE BruteForce(_, _, _)
BruteForce(S, cells, finalReach) ==
  IF cells = <<>> THEN S
  ELSE BruteForce({<<s[1] \cup p, s[2] + 1>> :
                     s \in S, p \in RandomPaths(Head(cells), Nearest(finalReach, Head(cells)))},
                  Tail(cells), finalReach)

(* A repair that counts the isolated regions and connects none of them.   *)
ensureFullConnectivityCountOnly(g, h, w, s) ==
  LET reachable == BfsFrom(g, h, w, s)
      unreachableCells ==
        SelectSeq(RowMajor(g, h, w), LAMBDA c : c \notin Range(reachable))
  IN {<<g, Len(IsolatedRegions(g, h, w, unreachableCells, {}))>>}

(* ensureFullConnectivity(grid, start): the set of possible                *)
(* <<grid after the call, connectionsAdded>>.                              *)
ensureFullConnectivity(g, h, w, s) ==
  LET openCells == RowMajor(g, h, w)
      reachable == BfsFrom(g, h, w, s)
      unreachableCells == SelectSeq(openCells, LAMBDA c : c \notin Range(reachable))
  IN IF unreachableCells = <<>> THEN {<<g, 0>>}
     ELSE LET regions == IsolatedRegions(g, h, w, unreachableCells, {})
              st == ConnectRegions(<<g, reachable, 0>>, regions)
              finalReachable == BfsFrom(st[1], h, w, s)
              finalUnreachable ==
                SelectSeq(openCells, LAMBDA c : c \notin Range(finalReachable))
          IN BruteForce({<<st[1], st[3]>>}, finalUnreachable, finalReachable)

(* The interior passage cells in row-major order: the openCells list of    *)
(* ensureAllCellsAccessible and of findOptimalStartEndPair.                *)
InteriorOpenCells(g, h, w) ==
  SelectSeq(RowMajor(g, h, w),
            LAMBDA c : c[1] >= 1 /\ c[1] < h - 1 /\ c[2] >= 1 /\ c[2] < w - 1)

(* getAccessibleCells(startPos) of ensureAllCellsAccessible: the cells     *)
(* dequeued, in insertion order.  startPos is always among them.           *)
getAccessibleCells(g, h, w, s) == AddAll(<<>>, BfsFromCharSet(g, h, w, s))

(* First pass of ensureAllCellsAccessible for a cell c of openCells that   *)
(* is not in accessibleFromStart.  st is <<grid, accessibleFromStart,      *)
(* connectionsAdded>>.                                                     *)
AccessStep(st, c) ==
  LET path == CarvePath(c, Nearest(st[2], c))
  IN <<st[1] \cup Range(path), AddAll(AddAll(st[2], path), <<c>>), st[3] + 1>>

(* The first pass over openCells from index i on: cells already in         *)
(* accessibleFromStart are passed over.                                    *)
RECURSIVE AccessPass(_, _, _)
AccessPass(st, cells, i) ==
  LET todo == {j \in i..Len(cells) : cells[j] \notin Range(st[2])}
  IN IF todo = {} THEN st
     ELSE LET j == CHOOSE k \in todo : \A k2 \in todo : k <= k2
          IN AccessPass(AccessStep(st, cells[j]), cells, j + 1)

(* Second pass: a direct corridor to start from every cell of openCells    *)
(* missing from allCellsAccessible.  The result is <<grid,                 *)
(* secondPassConnections>>.                                                *)
SecondPass(g, cells, all, s) ==
  LET missing == SelectSeq(cells, LAMBDA c : c \notin all)
  IN <<g \cup UNION {Range(CarvePath(missing[k], s)) : k \in 1..Len(missing)},
       Len(missing)>>

(* ensureAllCellsAccessible(grid, start, end): the set of possible         *)
(* <<grid after the call, connectionsAdded, openAreasFixed,                *)
(* secondPassConnections>>.  The end argument is never read.               *)
ensureAllCellsAccessible(g, h, w, s) ==
  LET openCells == InteriorOpenCells(g, h, w)
  IN UNION {UNION {{<<b[1], p1[3], b[2], p2[2]>> : b \in breakUpLargeOpenAreas(p2[1], h, w)}
                   : p2 \in {SecondPass(p1[1], openCells,
                                        Range(getAccessibleCells(p1[1], h, w, s)), s)}}
            : p1 \in {AccessPass(<<g, getAccessibleCells(g, h, w, s), 0>>, openCells, 1)}}

(* Variant of pathExists that only tests start and end, without the       *)
(* search from start.                                                      *)
pathExistsEndpointsOnly(g, h, w, s, e) ==
  /\ InGrid(h, w, s) /\ InGrid(h, w, e)
  /\ s \in g /\ e \in g

(* pathExists(maze) on the maze whose walls are the complement of g, start *)
(* and end given 0-indexed: both inside the grid, neither a wall, and the  *)
(* BFS from start dequeues end.                                            *)
pathExists(g, h, w, s, e) ==
  /\ InGrid(h, w, s) /\ InGrid(h, w, e)
  /\ s \in g /\ e \in g
  /\ e \in Range(BfsFromCharSet(g, h, w, s))

----------------------------------------------------------------------------
(* generateHedgeMaze, Prim's algorithm.  A wall-list entry is the pair     *)
(* <<wall cell, opposite cell>>.                                           *)

(* The entries pushed for the cell c, in the order north, south, west,     *)
(* east; the cell two steps away must still be a wall.                     *)
PrimWalls(g, h, w, c) ==
  (IF c[1] > 1 /\ <<c[1] - 2, c[2]>> \notin g
   THEN << <<<<c[1] - 1, c[2]>>, <<c[1] - 2, c[2]>>>> >> ELSE <<>>)
  \o (IF c[1] < h - 2 /\ <<c[1] + 2, c[2]>> \notin g
      THEN << <<<<c[1] + 1, c[2]>>, <<c[1] + 2, c[2]>>>> >> ELSE <<>>)
  \o (IF c[2] > 1 /\ <<c[1], c[2] - 2>> \notin g
      THEN << <<<<c[1], c[2] - 1>>, <<c[1], c[2] - 2>>>> >> ELSE <<>>)
  \o (IF c[2] < w - 2 /\ <<c[1], c[2] + 2>> \notin g
      THEN << <<<<c[1], c[2] + 1>>, <<c[1], c[2] + 2>>>> >> ELSE <<>>)

(* Variant of the iteration that carves through the entry without looking  *)
(* at the opposite cell.                                                   *)
PrimCarveUnchecked(st, h, w, i) ==
  LET e == st[2][i]
      rest == SubSeq(st[2], 1, i - 1) \o SubSeq(st[2], i + 1, Len(st[2]))
  IN IF InGrid(h, w, e[2]) /\ e[2] \notin st[1]
     THEN LET g2 == st[1] \cup {e[1], e[2]}
          IN <<g2, rest \o PrimWalls(g2, h, w, e[2])>>
     ELSE <<st[1] \cup {e[1], e[2]}, rest>>

(* One iteration of the while loop on st = <<grid, walls>> with            *)
(* randomIndex = i - 1: splice out the entry and carve through it when the *)
(* opposite cell is a wall.                                                *)
PrimCarve(st, h, w, i) ==
  LET e == st[2][i]
      rest == SubSeq(st[2], 1, i - 1) \o SubSeq(st[2], i + 1, Len(st[2]))
  IN IF InGrid(h, w, e[2]) /\ e[2] \notin st[1]
     THEN LET g2 == st[1] \cup {e[1], e[2]}
          IN <<g2, rest \o PrimWalls(g2, h, w, e[2])>>
     ELSE <<st[1], rest>>

(* The iteration for the values the draw of the index ranges over.         *)
PrimPick(st, h, w) ==
  {PrimCarve(st, h, w, j + 1) : j \in RandomIntAt(PrimLevels, Len(st[2]))}

(* The grids the loop can end with, from the set S of <<grid, walls>>.     *)
RECURSIVE PrimRun(_, _, _)
PrimRun(S, h, w) ==
  IF S = {} THEN {}
  ELSE {st[1] : st \in {t \in S : t[2] = <<>>}}
       \cup PrimRun(UNION {PrimPick(st, h, w) : st \in {t \in S : t[2] # <<>>}}, h, w)

(* The grids after the Prim loop of generateHedgeMaze.                     *)
PrimMaze(h, w) ==
  PrimRun({<<{<<sy, sx>>}, PrimWalls({}, h, w, <<sy, sx>>)>> :
             sy \in {2 * k + 1 : k \in RandomIntAt(PrimLevels, h \div 2)},
             sx \in {2 * k + 1 : k \in RandomIntAt(PrimLevels, w \div 2)}},
          h, w)

----------------------------------------------------------------------------
(* addInteriorWalls                                                        *)

(* floor(width * height * pct/100 * sizeFactor) with                       *)
(* sizeFactor = min(1, 15 / max(width, height)).                           *)
ScaledCount(h, w, pct) ==
  IF Max(w, h) <= 15 THEN (w * h * pct) \div 100
  ELSE (w * h * pct * 15) \div (100 * Max(w, h))

(* wallProbability = max(0.4 * sizeFactor, 0.2) as <<num, den>>.           *)
WallProbability(h, w) ==
  IF Max(w, h) <= 15 THEN <<4, 10>>
  ELSE IF Max(w, h) <= 30 THEN <<6, Max(w, h)>> ELSE <<2, 10>>

(* The branch cell of a new wall at c for direction d, or c itself when    *)
(* the direction's guard fails.                                            *)
InteriorBranch(h, w, c, d) ==
  CASE d = 0 -> IF c[1] > 1 THEN <<c[1] - 1, c[2]>> ELSE c
    [] d = 1 -> IF c[2] < w - 2 THEN <<c[1], c[2] + 1>> ELSE c
    [] d = 2 -> IF c[1] < h - 2 THEN <<c[1] + 1, c[2]>> ELSE c
    [] OTHER -> IF c[2] > 1 THEN <<c[1], c[2] - 1>> ELSE c

(* The double loop over 2 <= y < height-2, 2 <= x < width-2; k is the      *)
(* row-major position, S the set of grids reached before it.               *)
RECURSIVE InteriorScan(_, _, _, _)
InteriorScan(S, k, h, w) ==
  IF h <= 4 \/ w <= 4 \/ k >= (h - 4) * (w - 4) THEN S
  ELSE LET c == <<2 + (k \div (w - 4)), 2 + (k % (w - 4))>>
           p == WallProbability(h, w)
       IN InteriorScan(
            UNION {IF c \notin g THEN {g}
                   ELSE UNION {IF hit
                               THEN {g \ {c, InteriorBranch(h, w, c, d)} : d \in RandomInt(4)}
                               ELSE {g} : hit \in RandomBelow(p[1], p[2])}
                   : g \in S},
            k + 1, h, w)

(* n hedge islands: a random cell of rows and columns 2..size-3 becomes a  *)
(* wall when it is a passage with at least three passage neighbours.  keep *)
(* holds the cells an island must not be put on.                           *)
RECURSIVE Islands(_, _, _, _, _)
Islands(S, n, h, w, keep) ==
  IF n = 0 THEN S
  ELSE Islands(UNION {{IF c \notin keep /\ c \in g /\ Cardinality(OpenNeighbours(g, c)) >= 3
                       THEN g \ {c} ELSE g
                       : c \in {<<2 + dy, 2 + dx>> : dy \in RandomInt(h - 4), dx \in RandomInt(w - 4)}}
                      : g \in S},
               n - 1, h, w, keep)

addInteriorWalls(g, h, w) ==
  Islands(InteriorScan({g}, 0, h, w), ScaledCount(h, w, 2), h, w, {})

(* The grids generateHedgeMaze hands to findOptimalStartEndPair: Prim,     *)
(* interior walls, then the outer border set to wall.                      *)
SealedMazes(h, w) ==
  {g \ Border(h, w) : g \in UNION {addInteriorWalls(p, h, w) : p \in PrimMaze(h, w)}}

----------------------------------------------------------------------------
(* findOptimalStartEndPair of the enhanced hedge generator.                *)

(* null                                                                    *)
NoCell == <<-1, -1>>

(* The BFS of findFurthestCell by distance: the d-th element holds the     *)
(* cells queued with distance d-1.  The visited set starts without the     *)
(* start cell (new Set of a string), so the start is queued again, with    *)
(* distance 2, when it has a passage neighbour.                            *)
RECURSIVE BfsLevels(_, _, _)
BfsLevels(g, frontier, seen) ==
  IF frontier = {} THEN <<>>
  ELSE LET next == (UNION {OpenNeighbours(g, c) : c \in frontier}) \ seen
       IN <<frontier>> \o BfsLevels(g, next, seen \cup next)

(* distances.get(key) || 0 : the distance of the last time c was dequeued. *)
PathDist(levels, c) ==
  LET idx == {i \in 1..Len(levels) : c \in levels[i]}
  IN IF idx = {} THEN 0 ELSE (CHOOSE i \in idx : \A j \in idx : j <= i) - 1

(* a1 + sqrt(m1) > a2 + sqrt(m2) for integers a1, a2 and naturals m1, m2.  *)
SumGreater(a1, m1, a2, m2) ==
  LET d == a2 - a1
  IN IF d >= 0
     THEN LET l == m1 - m2 - d * d IN l > 0 /\ l * l > 4 * d * d * m2
     ELSE LET l == m2 - m1 - d * d IN ~(l >= 0 /\ l * l >= 4 * d * d * m1)

(* score = pathDist * 3 + physicalDist - alignmentPenalty, kept as the     *)
(* integer part a and the square m of the physical distance.               *)
ScoreInt(s, c, d) ==
  LET rc == Min(Abs(c[1] - s[1]), Abs(c[2] - s[2]))
  IN 3 * d - (IF rc <= 2 THEN 15 - 5 * rc ELSE 0)

SquaredDist(s, c) == (c[1] - s[1]) * (c[1] - s[1]) + (c[2] - s[2]) * (c[2] - s[2])

(* The loop over cellList; best is <<furthestCell, a, m>> with maxScore =  *)
(* a + sqrt(m), initially 0.                                               *)
RECURSIVE FurthestFold(_, _, _, _, _)
FurthestFold(levels, s, cells, i, best) ==
  IF i > Len(cells) THEN best
  ELSE LET c == cells[i]
           d == PathDist(levels, c)
       IN FurthestFold(levels, s, cells, i + 1,
            IF c # s /\ d # 0
               /\ SumGreater(ScoreInt(s, c, d), SquaredDist(s, c), best[2], best[3])
            THEN <<c, ScoreInt(s, c, d), SquaredDist(s, c)>> ELSE best)

(* findFurthestCell(startCell, cellList) as <<cell, distance>>.            *)
findFurthestCell(g, s, cells) ==
  LET levels == BfsLevels(g, {s}, {})
      best == FurthestFold(levels, s, cells, 1, <<NoCell, 0, 0>>)
  IN <<best[1], IF best[1] = NoCell THEN 0 ELSE PathDist(levels, best[1])>>

(* Open cells of a region in the order of its two loops.                   *)
RegionCells(g, h, w, minY, maxY, minX, maxX) ==
  SelectSeq(RowMajor(g, h, w),
            LAMBDA c : c[1] >= minY /\ c[1] <= maxY /\ c[2] >= minX /\ c[2] <= maxX)

(* Concatenation of a sequence of sequences.                               *)
RECURSIVE Flatten(_)
Flatten(ss) == IF ss = <<>> THEN <<>> ELSE Head(ss) \o Flatten(Tail(ss))

(* The cells of cornerRegions then edgeRegions.                            *)
StrategicRegionCells(g, h, w) ==
  LET cy == Min(5, (h * 2) \div 10)
      cx == Min(5, (w * 2) \div 10)
      by == Max(h - 6, h - ((h * 2) \div 10) - 1)
      bx == Max(w - 6, w - ((w * 2) \div 10) - 1)
  IN Flatten(<<
       RegionCells(g, h, w, 1, cy, 1, cx),
       RegionCells(g, h, w, 1, cy, bx, w - 2),
       RegionCells(g, h, w, by, h - 2, 1, cx),
       RegionCells(g, h, w, by, h - 2, bx, w - 2),
       RegionCells(g, h, w, 1, Min(3, h \div 10), (w * 4) \div 10, (w * 6) \div 10),
       RegionCells(g, h, w, Max(h - 4, h - (h \div 10) - 1), h - 2,
                   (w * 4) \div 10, (w * 6) \div 10),
       RegionCells(g, h, w, (h * 4) \div 10, (h * 6) \div 10, 1, Min(3, w \div 10)),
       RegionCells(g, h, w, (h * 4) \div 10, (h * 6) \div 10,
                   Max(w - 4, w - (w \div 10) - 1), w - 2) >>)

(* minRequiredLength = max(floor(max(height, width) * 0.7), 5)             *)
MinRequiredLength(h, w) == Max((Max(h, w) * 7) \div 10, 5)

(* minRequiredDiff = Math.floor(Math.max(width, height) / 2)               *)
MinRequiredDiff(h, w) == Max(w, h) \div 2

HasRequiredSeparation(h, w, a, b) ==
  /\ Abs(a[1] - b[1]) >= MinRequiredDiff(h, w)
  /\ Abs(a[2] - b[2]) >= MinRequiredDiff(h, w)

(* The two passes of one iteration of the diameter search for startPoint p *)
(* as <<point A, point B, distance of B, hasRequiredSeparation>>, or       *)
(* <<NoCell>> when the iteration is skipped with continue.                 *)
DiameterPair(g, h, w, openCells, p) ==
  LET a == findFurthestCell(g, p, openCells)
  IN IF a[1] = NoCell THEN <<NoCell>>
     ELSE LET b == findFurthestCell(g, a[1], openCells)
          IN IF b[1] = NoCell THEN <<NoCell>>
             ELSE <<a[1], b[1], b[2], HasRequiredSeparation(h, w, a[1], b[1])>>

(* One iteration on the loop state <<bestStart, bestEnd, maxPathLength,    *)
(* loop left with break>>.                                                 *)
DiameterStep(st, pr, h, w) ==
  IF st[4] \/ pr[1] = NoCell THEN st
  ELSE LET effectiveScore == pr[3] + (IF pr[4] THEN 100 ELSE 0)
       IN IF effectiveScore > st[3]
          THEN <<pr[1], pr[2], effectiveScore, pr[4] /\ pr[3] >= MinRequiredLength(h, w)>>
          ELSE st

RECURSIVE DiameterFold(_, _, _, _, _, _)
DiameterFold(st, g, h, w, openCells, pts) ==
  IF pts = <<>> \/ st[4] THEN st
  ELSE DiameterFold(DiameterStep(st, DiameterPair(g, h, w, openCells, Head(pts)), h, w),
                    g, h, w, openCells, Tail(pts))

(* n further iterations whose starting points are random draws with the    *)
(* pairs prs; S is the set of loop states reached.                         *)
RECURSIVE DiameterRandom(_, _, _, _, _)
DiameterRandom(S, prs, n, h, w) ==
  IF n = 0 THEN S
  ELSE LET S2 == {DiameterStep(st, pr, h, w) : st \in S, pr \in prs}
       IN IF S2 = S THEN S ELSE DiameterRandom(S2, prs, n - 1, h, w)

(* possibleCorners of the alternative approach.                            *)
PossibleCorners(g, h, w) ==
  LET cy == Min(6, (h * 2) \div 10)
      cx == Min(6, (w * 2) \div 10)
      by == Max(h - 6, h - ((h * 2) \div 10) - 1)
      bx == Max(w - 6, w - ((w * 2) \div 10) - 1)
  IN Flatten(<<
       RegionCells(g, h, w, 1, cy, 1, cx),
       RegionCells(g, h, w, 1, cy, bx, w - 2),
       RegionCells(g, h, w, by, h - 2, 1, cx),
       RegionCells(g, h, w, by, h - 2, bx, w - 2) >>)

(* The loop choosing bestIdx2 for idx1 (indices from 1 here); best is      *)
(* <<bestIdx2, a, m>> with maxDiagonalScore = a + sqrt(m), initially -1.   *)
RECURSIVE DiagonalFold(_, _, _, _, _, _)
DiagonalFold(pcs, i1, i, best, h, w) ==
  IF i > Len(pcs) THEN best
  ELSE LET minDiff == Min(Abs(pcs[i][1] - pcs[i1][1]), Abs(pcs[i][2] - pcs[i1][2]))
           a == - (IF HasRequiredSeparation(h, w, pcs[i1], pcs[i]) THEN 0 ELSE 200)
                - (IF minDiff <= 2 THEN 100 - minDiff * 50 ELSE 0)
           m == 4 * SquaredDist(pcs[i1], pcs[i])
       IN DiagonalFold(pcs, i1, i + 1,
            IF i # i1 /\ SumGreater(a, m, best[2], best[3]) THEN <<i, a, m>> ELSE best,
            h, w)

CornerToCorner(pcs, h, w) ==
  {LET best == DiagonalFold(pcs, i1, 1, <<0, -1, 0>>, h, w)
       i2 == IF best[1] # 0 THEN best[1]
             ELSE (((i1 - 1) + (Len(pcs) \div 2)) % Len(pcs)) + 1
   IN <<pcs[i1], pcs[i2], "corner">>
   : i1 \in {j + 1 : j \in RandomInt(Len(pcs))}}

(* One attempt of the last-resort loop for the random cell rc on the state *)
(* <<bestStart, bestEnd, bestDistance, bestSeparationScore, left with      *)
(* break>>.                                                                *)
LastResortStep(st, g, h, w, openCells, rc) ==
  LET f == findFurthestCell(g, rc, openCells)
      minDiff == Min(Abs(rc[1] - f[1][1]), Abs(rc[2] - f[1][2]))
      sep == HasRequiredSeparation(h, w, rc, f[1])
      score == f[2] + (IF sep THEN 1000 ELSE 0) + minDiff * 10
  IN IF st[5] \/ f[1] = NoCell THEN st
     ELSE IF (sep /\ score > st[4]) \/ (~sep /\ st[4] < 0 /\ score > st[3])
     THEN <<rc, f[1], f[2], IF sep THEN score ELSE -1,
            sep /\ minDiff >= 3 /\ f[2] >= MinRequiredDiff(h, w)>>
     ELSE st

RECURSIVE LastResortRun(_, _, _, _, _, _, _)
LastResortRun(S, n, g, h, w, openCells, drawn) ==
  IF n = 0 THEN S
  ELSE LET S2 == {LastResortStep(st, g, h, w, openCells, rc) : st \in S, rc \in drawn}
       IN IF S2 = S THEN S ELSE LastResortRun(S2, n - 1, g, h, w, openCells, drawn)

(* The default corners of the absolute fallback.                           *)
AbsoluteFallback(h, w) ==
  IF HasRequiredSeparation(h, w, <<1, 1>>, <<h - 2, w - 2>>)
  THEN <<<<1, 1>>, <<h - 2, w - 2>>, "absolute">>
  ELSE <<<<1, 1>>,
         <<Max(h - 2, 1 + MinRequiredDiff(h, w)), Max(w - 2, 1 + MinRequiredDiff(h, w))>>,
         "absolute">>

(* The alternative approach taken when the diameter search gave no pair    *)
(* that is long enough.                                                    *)
AlternativeApproach(g, h, w, openCells, drawn) ==
  LET pcs == PossibleCorners(g, h, w)
  IN IF Len(pcs) >= 2 THEN CornerToCorner(pcs, h, w)
     ELSE {IF st[1] # NoCell THEN <<st[1], st[2], "random">> ELSE AbsoluteFallback(h, w)
           : st \in LastResortRun({<<NoCell, NoCell, -1, -1, FALSE>>}, 15,
                                  g, h, w, openCells, drawn)}

(* findOptimalStartEndPair(grid, height, width): the set of possible       *)
(* <<start, end, branch>>, branch naming the return taken.                 *)
findOptimalStartEndPair(g, h, w) ==
  LET openCells == InteriorOpenCells(g, h, w)
  IN IF Len(openCells) < 2 THEN {<<<<1, 1>>, <<h - 2, w - 2>>, "default">>}
     ELSE LET fixed == StrategicRegionCells(g, h, w)
              drawn == {openCells[i + 1] : i \in RandomInt(Len(openCells))}
              nRandom == (IF Len(fixed) < 10 THEN 20 ELSE 0)
                         + Min(30, (Len(openCells) * 15) \div 100)
              st0 == DiameterFold(<<NoCell, NoCell, 0, FALSE>>, g, h, w, openCells, fixed)
              prs == {DiameterPair(g, h, w, openCells, p) : p \in drawn}
              finals == DiameterRandom({st0}, prs, nRandom, h, w)
          IN UNION {
               IF st[1] = NoCell THEN AlternativeApproach(g, h, w, openCells, drawn)
               ELSE LET realDistance == findFurthestCell(g, st[1], <<st[2]>>)[2]
                    IN IF HasRequiredSeparation(h, w, st[1], st[2])
                          /\ realDistance >= MinRequiredLength(h, w)
                       THEN {<<st[1], st[2], "primary">>}
                       ELSE IF 2 * realDistance >= 3 * MinRequiredLength(h, w)
                       THEN {<<st[1], st[2], "long">>}
                       ELSE AlternativeApproach(g, h, w, openCells, drawn)
               : st \in finals}

----------------------------------------------------------------------------
(* addMazeComplexity of the enhanced hedge generator and its helpers.      *)

(* sizeFactor = max(min(1, 15 / max(width, height)), 0.4) applied to       *)
(* floor(width * height * pct/100 * sizeFactor).                           *)
ComplexityCount(h, w, pct) ==
  IF Max(w, h) <= 15 THEN (w * h * pct) \div 100
  ELSE IF 4 * Max(w, h) <= 150 THEN (w * h * pct * 15) \div (100 * Max(w, h))
  ELSE (w * h * pct * 4) \div 1000

(* A random cell of rows 1..height-2 and columns 1..width-2.               *)
RandomInnerCell(h, w) == {<<1 + dy, 1 + dx>> : dy \in RandomInt(h - 2), dx \in RandomInt(w - 2)}

(* A random cell of rows 2..height-3 and columns 2..width-3.               *)
RandomCoreCell(h, w) == {<<2 + dy, 2 + dx>> : dy \in RandomInt(h - 4), dx \in RandomInt(w - 4)}

(* n dead ends: a random inner cell other than start and end becomes a     *)
(* wall when it is a passage with at least three passage neighbours.       *)
RECURSIVE DeadEnds(_, _, _, _, _)
DeadEnds(S, n, h, w, keep) ==
  IF n = 0 THEN S
  ELSE DeadEnds({IF c \notin keep /\ c \in g /\ Cardinality(OpenNeighbours(g, c)) >= 3
                 THEN g \ {c} ELSE g
                 : g \in S, c \in RandomInnerCell(h, w)},
                n - 1, h, w, keep)

(* The cells an obstacle draw can name: the interpolation between start    *)
(* and end at ratio k / RandomLevels, floored, plus an offset of -1, 0 or  *)
(* 1 on each axis.                                                         *)
ObstacleCells(s, e) ==
  {<<s[1] + ((k * (e[1] - s[1])) \div RandomLevels) + (oy - 1),
     s[2] + ((k * (e[2] - s[2])) \div RandomLevels) + (ox - 1)>>
   : k \in 0..(RandomLevels - 1), oy \in RandomInt(3), ox \in RandomInt(3)}

RECURSIVE PathObstacles(_, _, _, _, _, _)
PathObstacles(S, n, h, w, s, e) ==
  IF n = 0 THEN S
  ELSE PathObstacles(
         {IF c[1] > 0 /\ c[1] < h - 1 /\ c[2] > 0 /\ c[2] < w - 1
             /\ c # s /\ c # e /\ c \in g /\ Cardinality(OpenNeighbours(g, c)) >= 3
          THEN g \ {c} ELSE g
          : g \in S, c \in ObstacleCells(s, e)},
         n - 1, h, w, s, e)

(* n loops: a random inner wall with at least two passage neighbours is    *)
(* opened.                                                                 *)
RECURSIVE Loops(_, _, _, _)
Loops(S, n, h, w) ==
  IF n = 0 THEN S
  ELSE Loops({IF c \notin g /\ Cardinality(OpenNeighbours(g, c)) >= 2
              THEN g \cup {c} ELSE g
              : g \in S, c \in RandomInnerCell(h, w)},
             n - 1, h, w)

(* The extension of an island at c: with probability 0.3 the neighbour in  *)
(* a random direction (east, south, west, north) is walled too, when it is *)
(* an inner passage other than start and end.                              *)
IslandExtensions(g, h, w, c, keep) ==
  UNION {IF ~ext THEN {g}
         ELSE {LET n == Step(c, << <<0, 1>>, <<1, 0>>, <<0, -1>>, <<-1, 0>> >>[d + 1])
               IN IF n[1] > 0 /\ n[1] < h - 1 /\ n[2] > 0 /\ n[2] < w - 1
                     /\ n \in g /\ n \notin keep
                  THEN g \ {n} ELSE g
               : d \in RandomInt(4)}
         : ext \in RandomBelow(3, 10)}

RECURSIVE ObstacleIslands(_, _, _, _, _)
ObstacleIslands(S, n, h, w, keep) ==
  IF n = 0 THEN S
  ELSE ObstacleIslands(
         UNION {IF c \notin keep /\ c \in g /\ Cardinality(OpenNeighbours(g, c)) >= 3
                THEN IslandExtensions(g \ {c}, h, w, c, keep) ELSE {g}
                : g \in S, c \in RandomCoreCell(h, w)},
         n - 1, h, w, keep)

(* checkAndBreakHorizontalRun from column x on, runStart as in the code.   *)
RECURSIVE HorizontalRun(_, _, _, _, _, _, _)
(* Variant: the passage that keeps the run connected is carved on the      *)
(* side of the edge instead of the side of the maze.                       *)
HorizontalRunOutward(g, row, x, runStart, h, w, maxRunLength) ==
  IF x >= w - 1 THEN g
  ELSE IF <<row, x>> \notin g THEN HorizontalRun(g, row, x + 1, -1, h, w, maxRunLength)
  ELSE IF runStart = -1 THEN HorizontalRun(g, row, x + 1, x, h, w, maxRunLength)
  ELSE IF x - runStart >= maxRunLength
  THEN LET breakPoint == runStart + ((x - runStart) \div 2)
           carved == IF row < h - 2 THEN {<<row - 1, breakPoint>>}
                     ELSE IF row > 1 THEN {<<row + 1, breakPoint>>} ELSE {}
       IN HorizontalRun((g \ {<<row, breakPoint>>}) \cup carved,
                        row, x + 1, x, h, w, maxRunLength)
  ELSE HorizontalRun(g, row, x + 1, runStart, h, w, maxRunLength)

HorizontalRun(g, row, x, runStart, h, w, maxRunLength) ==
  IF x >= w - 1 THEN g
  ELSE IF <<row, x>> \notin g THEN HorizontalRun(g, row, x + 1, -1, h, w, maxRunLength)
  ELSE IF runStart = -1 THEN HorizontalRun(g, row, x + 1, x, h, w, maxRunLength)
  ELSE IF x - runStart >= maxRunLength
  THEN LET breakPoint == runStart + ((x - runStart) \div 2)
           carved == IF row < h - 2 THEN {<<row + 1, breakPoint>>}
                     ELSE IF row > 1 THEN {<<row - 1, breakPoint>>} ELSE {}
       IN HorizontalRun((g \ {<<row, breakPoint>>}) \cup carved,
                        row, x + 1, x, h, w, maxRunLength)
  ELSE HorizontalRun(g, row, x + 1, runStart, h, w, maxRunLength)

(* checkAndBreakVerticalRun from row y on.                                 *)
RECURSIVE VerticalRun(_, _, _, _, _, _, _)
VerticalRun(g, col, y, runStart, h, w, maxRunLength) ==
  IF y >= h - 1 THEN g
  ELSE IF <<y, col>> \notin g THEN VerticalRun(g, col, y + 1, -1, h, w, maxRunLength)
  ELSE IF runStart = -1 THEN VerticalRun(g, col, y + 1, y, h, w, maxRunLength)
  ELSE IF y - runStart >= maxRunLength
  THEN LET breakPoint == runStart + ((y - runStart) \div 2)
           carved == IF col < w - 2 THEN {<<breakPoint, col + 1>>}
                     ELSE IF col > 1 THEN {<<breakPoint, col - 1>>} ELSE {}
       IN VerticalRun((g \ {<<breakPoint, col>>}) \cup carved,
                      col, y + 1, y, h, w, maxRunLength)
  ELSE VerticalRun(g, col, y + 1, runStart, h, w, maxRunLength)

(* The wall a branch adds next to c for direction d, or c when the guard   *)
(* of the direction fails.                                                 *)
HedgeBranch(h, w, c, d) ==
  CASE d = 0 -> IF c[1] > 2 THEN <<c[1] - 1, c[2]>> ELSE c
    [] d = 1 -> IF c[2] < w - 3 THEN <<c[1], c[2] + 1>> ELSE c
    [] d = 2 -> IF c[1] < h - 3 THEN <<c[1] + 1, c[2]>> ELSE c
    [] OTHER -> IF c[2] > 2 THEN <<c[1], c[2] - 1>> ELSE c

(* addHedgeBranches with branchCount n: a random core passage with at      *)
(* least two wall neighbours gets a wall on one side.                      *)
RECURSIVE addHedgeBranches(_, _, _, _)
addHedgeBranches(S, n, h, w) ==
  IF n = 0 THEN S
  ELSE addHedgeBranches(
         UNION {IF c \in g /\ Cardinality(WallNeighbours(g, h, w, c)) >= 2
                THEN {IF HedgeBranch(h, w, c, d) = c THEN g ELSE g \ {HedgeBranch(h, w, c, d)}
                      : d \in RandomInt(4)}
                ELSE {g}
                : g \in S, c \in RandomCoreCell(h, w)},
         n - 1, h, w)

breakUpEdgeRuns(g, h, w) ==
  LET maxRunLength == Max(3, Min(w, h) \div 5)
      g1 == HorizontalRun(g, 1, 1, -1, h, w, maxRunLength)
      g2 == HorizontalRun(g1, h - 2, 1, -1, h, w, maxRunLength)
      g3 == VerticalRun(g2, 1, 1, -1, h, w, maxRunLength)
      g4 == VerticalRun(g3, w - 2, 1, -1, h, w, maxRunLength)
  IN addHedgeBranches({g4}, ScaledCount(h, w, 3), h, w)

(* addMazeComplexity(grid, width, height, {start, end}): the set of grids  *)
(* it can leave.                                                           *)
addMazeComplexity(g, h, w, s, e) ==
  LET d == DeadEnds({g}, ComplexityCount(h, w, 8), h, w, {s, e})
      o == PathObstacles(d, (Max(w, h) * 3) \div 10, h, w, s, e)
      l == Loops(o, ComplexityCount(h, w, 2), h, w)
      i == ObstacleIslands(l, ComplexityCount(h, w, 3), h, w, {s, e})
  IN UNION {breakUpEdgeRuns(x, h, w) : x \in i}

----------------------------------------------------------------------------
(* generateHedgeMaze                                                       *)

(* walls_list of a grid: its wall cells, 1-indexed.                        *)
WallsList(g, h, w) == {<<c[1] + 1, c[2] + 1>> : c \in Cells(h, w) \ g}

(* The 1-indexed position of a 0-indexed cell.                             *)
OneIndexed(c) == <<c[1] + 1, c[2] + 1>>

(* The final connectivity verification of generateHedgeMaze: when          *)
(* verifyFullConnectivity reports unreachable cells, ensureFullConnectivity*)
(* runs, and breakUpLargeOpenAreas after it when it added a connection.    *)
FinalVerification(g, h, w, s) ==
  IF UnreachableCells(g, h, w, s) = {} THEN {g}
  ELSE UNION {IF f[2] > 0 THEN {b[1] : b \in breakUpLargeOpenAreas(f[1], h, w)} ELSE {f[1]}
              : f \in ensureFullConnectivity(g, h, w, s)}

(* The stages of generateHedgeMaze after the placement of start and end.   *)
AfterPlacement(g, h, w, s, e) ==
  LET complex == addMazeComplexity(g, h, w, s, e)
      broken == UNION {{b[1] : b \in breakUpLargeOpenAreas(x, h, w)} : x \in complex}
      accessible == UNION {{a[1] : a \in ensureAllCellsAccessible(x, h, w, s)} : x \in broken}
      rebroken == UNION {{b[1] : b \in breakUpLargeOpenAreas(x, h, w)} : x \in accessible}
  IN UNION {FinalVerification(x, h, w, s) : x \in rebroken}

(* generateHedgeMaze(width, height): the set of mazes it can return, each  *)
(* with the branch of findOptimalStartEndPair its console output names.    *)
generateHedgeMaze(width0, height0) ==
  LET w == IF width0 % 2 = 0 THEN width0 + 1 ELSE width0
      h == IF height0 % 2 = 0 THEN height0 + 1 ELSE height0
  IN UNION {UNION {{[maze |-> [width |-> w, height |-> h,
                               start |-> OneIndexed(p[1]), end |-> OneIndexed(p[2]),
                               walls |-> WallsList(x, h, w)],
                     branch |-> p[3]]
                    : x \in AfterPlacement(g, h, w, p[1], p[2])}
                   : p \in findOptimalStartEndPair(g, h, w)}
            : g \in SealedMazes(h, w)}

----------------------------------------------------------------------------
(* findOptimalStartEndPair of the basic hedge generator                    *)
(* (gen_prim_maze.js, findOptimalStartEndPair.js).                         *)

(* The loop over openCells of the basic findFurthestCell: score =          *)
(* pathDist * 1000 + diagDist, and the start cell is not passed over.      *)
RECURSIVE BasicFurthestFold(_, _, _, _, _)
BasicFurthestFold(levels, s, cells, i, best) ==
  IF i > Len(cells) THEN best
  ELSE LET c == cells[i]
           d == PathDist(levels, c)
       IN BasicFurthestFold(levels, s, cells, i + 1,
            IF d # 0 /\ SumGreater(1000 * d, SquaredDist(s, c), best[2], best[3])
            THEN <<c, 1000 * d, SquaredDist(s, c)>> ELSE best)

(* findFurthestCell(startCell) of the basic generator as <<cell, distance>>*)
basicFindFurthestCell(g, s, cells) ==
  LET levels == BfsLevels(g, {s}, {})
      best == BasicFurthestFold(levels, s, cells, 1, <<NoCell, 0, 0>>)
  IN <<best[1], IF best[1] = NoCell THEN 0 ELSE PathDist(levels, best[1])>>

(* cornerRegions then edgeRegions, each as <<minY, maxY, minX, maxX>>.     *)
BasicRegions(h, w) ==
  LET cy == Min(10, h \div 10)
      cx == Min(10, w \div 10)
      by == Max(h - 11, h - (h \div 10) - 1)
      bx == Max(w - 11, w - (w \div 10) - 1)
  IN << <<1, cy, 1, cx>>, <<1, cy, bx, w - 2>>,
        <<by, h - 2, 1, cx>>, <<by, h - 2, bx, w - 2>>,
        <<1, cy, (w * 45) \div 100, (w * 55) \div 100>>,
        <<by, h - 2, (w * 45) \div 100, (w * 55) \div 100>>,
        <<(h * 45) \div 100, (h * 55) \div 100, 1, cx>>,
        <<(h * 45) \div 100, (h * 55) \div 100, bx, w - 2>> >>

(* n times: splice a random element out of rest and push it on picked.     *)
(* The set of possible <<picked, rest>>.                                   *)
RECURSIVE RandomPicks(_, _, _)
RandomPicks(picked, rest, n) ==
  IF n <= 0 \/ rest = <<>> THEN {<<picked, rest>>}
  ELSE UNION {RandomPicks(Append(picked, rest[i + 1]),
                          SubSeq(rest, 1, i) \o SubSeq(rest, i + 2, Len(rest)), n - 1)
              : i \in RandomInt(Len(rest))}

(* strategicPoints after the loop over allRegions from region k on.        *)
RECURSIVE BasicRegionPoints(_, _, _, _, _)
BasicRegionPoints(points, k, g, h, w) ==
  IF k > Len(BasicRegions(h, w)) THEN {points}
  ELSE LET r == BasicRegions(h, w)[k]
       IN UNION {BasicRegionPoints(p[1], k + 1, g, h, w)
                 : p \in RandomPicks(points, RegionCells(g, h, w, r[1], r[2], r[3], r[4]), 5)}

(* The loops over start points: best is <<bestStart, bestEnd,              *)
(* maxPathLength>>, replaced by a pair of greater distance that is at      *)
(* least minDist.                                                          *)
RECURSIVE BasicBest(_, _, _, _, _, _)
BasicBest(g, cells, points, i, minDist, best) ==
  IF i > Len(points) THEN best
  ELSE LET r == basicFindFurthestCell(g, points[i], cells)
       IN BasicBest(g, cells, points, i + 1, minDist,
                    IF r[2] >= minDist /\ r[1] # NoCell /\ r[2] > best[3]
                    THEN <<points[i], r[1], r[2]>> ELSE best)

(* The last resort: the pair of random indices, replaced by the most       *)
(* distant of the tried pairs of different indices when there is one.      *)
BasicRandomPair(cells) ==
  {<<cells[i + 1], cells[j + 1], "random">>
   : i \in RandomInt(Len(cells)), j \in RandomInt(Len(cells))}

(* findOptimalStartEndPair(grid, height, width) of the basic generator:    *)
(* the set of possible <<start, end, branch>>.                             *)
basicFindOptimalStartEndPair(g, h, w) ==
  LET openCells == InteriorOpenCells(g, h, w)
      minRequiredDistance == Max(h \div 2, w \div 2)
      none == <<NoCell, NoCell, 0>>
  IN IF Len(openCells) < 2 THEN {<<(<<1, 1>>), <<h - 2, w - 2>>, "default">>}
     ELSE UNION {UNION {
       LET strategicPoints == sp[1]
           first == BasicBest(g, openCells, strategicPoints, 1, minRequiredDistance, none)
       IN IF first[1] # NoCell THEN {<<first[1], first[2], "primary">>}
          ELSE UNION {
            LET additionalPoints == ap[1]
                second == BasicBest(g, openCells, additionalPoints, 1,
                                    minRequiredDistance, none)
                third == BasicBest(g, openCells, strategicPoints \o additionalPoints, 1,
                                   0, none)
            IN IF second[1] # NoCell THEN {<<second[1], second[2], "expanded">>}
               ELSE IF third[1] # NoCell THEN {<<third[1], third[2], "fallback">>}
               ELSE BasicRandomPair(openCells)
            : ap \in RandomPicks(<<>>, sp[2], Min(50, (Len(openCells) + 3) \div 4))}
       : sp \in RandomPicks(rp, openCells, 10)}
       : rp \in BasicRegionPoints(<<>>, 1, g, h, w)}

----------------------------------------------------------------------------
(* main() of the hedge generator.                                          *)

(* The size given on the command line.                                     *)
size == 7

(* The cap on the attempts of main().                                      *)
maxAttempts == 20

(* Most calls of generateHedgeMaze a run of main() is followed for.        *)
MaxCalls == 22

(* The value of maze before the first assignment, and of the output file   *)
(* before it is written.                                                   *)
NoMaze == [width |-> 0, height |-> 0, start |-> NoCell, end |-> NoCell, walls |-> {}]

(* The 0-indexed position of a 1-indexed cell.                             *)
ZeroIndexed(c) == <<c[1] - 1, c[2] - 1>>

(* The grid main() and pathExists() rebuild from maze.walls: the passage   *)
(* cells of the height x width rectangle.                                  *)
GridOf(m) == Cells(m.height, m.width) \ {ZeroIndexed(c) : c \in m.walls}

(* pathExists(maze).                                                       *)
mazePathExists(m) ==
  pathExists(GridOf(m), m.height, m.width, ZeroIndexed(m.start), ZeroIndexed(m.end))

(* verifyFullConnectivity(grid, start).unreachableCells.                   *)
verifyFullConnectivity(g, h, w, s) == Cardinality(UnreachableCells(g, h, w, s))

Init ==
  /\ pc = "do"
  /\ attempts = 0
  /\ maze = NoMaze
  /\ branch = "none"
  /\ connectivityInfo = 0
  /\ accessibilityInfo = 0
  /\ finalCheck = 0
  /\ file = NoMaze
  /\ artifacts = generateHedgeMaze(size, size)
  /\ walls = <<>>
  /\ ToolsUnused
  /\ rng = <<0>>
  /\ height = 0 /\ width = 0 /\ grid = {} /\ start = NoCell /\ end = NoCell
  /\ gridIn = {} /\ gridMid = {} /\ conn1 = 0 /\ conn2 = 0

(* maze = generateHedgeMaze(size, size); attempts++                        *)
Generate ==
  /\ pc = "do"
  /\ attempts < MaxCalls
  /\ \E a \in artifacts :
       /\ maze' = a.maze
       /\ branch' = a.branch
  /\ attempts' = attempts + 1
  /\ connectivityInfo' = 0
  /\ accessibilityInfo' = 0
  /\ finalCheck' = 0
  /\ pc' = "verify"
  /\ UNCHANGED <<toolVars, fnVars, genVars, file>>

(* The connectivity check of the grid rebuilt from maze.walls.             *)
CheckConnectivity ==
  /\ pc = "verify"
  /\ connectivityInfo' = verifyFullConnectivity(GridOf(maze), maze.height, maze.width,
                                                ZeroIndexed(maze.start))
  /\ pc' = IF connectivityInfo' > 0 THEN "fix" ELSE "cap"
  /\ UNCHANGED <<toolVars, fnVars, genVars, attempts, maze, branch, accessibilityInfo, finalCheck, file>>

(* The in-loop fix: ensureAllCellsAccessible, maze.walls rebuilt from the  *)
(* fixed grid, the final check, and `continue` when it still reports       *)
(* unreachable cells.                                                      *)
FixConnectivity ==
  /\ pc = "fix"
  /\ \E r \in ensureAllCellsAccessible(GridOf(maze), maze.height, maze.width,
                                       ZeroIndexed(maze.start)) :
       /\ accessibilityInfo' = r[2]
       /\ maze' = [maze EXCEPT !.walls = WallsList(r[1], maze.height, maze.width)]
       /\ finalCheck' = verifyFullConnectivity(r[1], maze.height, maze.width,
                                               ZeroIndexed(maze.start))
  /\ pc' = IF finalCheck' > 0 THEN "while" ELSE "cap"
  /\ UNCHANGED <<toolVars, fnVars, genVars, attempts, branch, connectivityInfo, file>>

(* if (attempts >= maxAttempts) process.exit(1)                            *)
CapCheck ==
  /\ pc = "cap"
  /\ pc' = IF attempts >= maxAttempts THEN "failed" ELSE "while"
  /\ UNCHANGED <<toolVars, fnVars, genVars, mainVars>>

(* while (!pathExists(maze))                                               *)
LoopTest ==
  /\ pc = "while"
  /\ pc' = IF mazePathExists(maze) THEN "write" ELSE "do"
  /\ UNCHANGED <<toolVars, fnVars, genVars, mainVars>>

(* fs.writeFileSync(finalOutputFile, JSON.stringify(maze))                 *)
Write ==
  /\ pc = "write"
  /\ file' = maze
  /\ pc' = "done"
  /\ UNCHANGED <<toolVars, fnVars, genVars, attempts, maze, branch, connectivityInfo,
                 accessibilityInfo, finalCheck>>

(* writeFileSync throws: the catch block exits with status 1.              *)
WriteFails ==
  /\ pc = "write"
  /\ pc' = "writeError"
  /\ UNCHANGED <<toolVars, fnVars, genVars, mainVars>>

Next ==
  \/ Generate
  \/ CheckConnectivity
  \/ FixConnectivity
  \/ CapCheck
  \/ LoopTest
  \/ Write
  \/ WriteFails

Spec == Init /\ [][Next]_vars

(* The cells a walk of orthogonal moves through non-wall cells reaches     *)
(* from the start of maze m, when start is a non-wall cell of the grid.    *)
ReachableFromStart(m) ==
  IF ZeroIndexed(m.start) \in GridOf(m)
  THEN Range(BfsFrom(GridOf(m), m.height, m.width, ZeroIndexed(m.start)))
  ELSE {}

(* Start and end of m are in the grid and not walls, and a path joins them.*)
HasPath(m) ==
  /\ InGrid(m.height, m.width, ZeroIndexed(m.start))
  /\ InGrid(m.height, m.width, ZeroIndexed(m.end))
  /\ m.start \notin m.walls
  /\ m.end \notin m.walls
  /\ ZeroIndexed(m.end) \in ReachableFromStart(m)

(* Every non-wall cell of m is reachable from its start.                   *)
AllReachable(m) == GridOf(m) \subseteq ReachableFromStart(m)

(* The 1-indexed cells of row 1, row height, column 1 and column width.    *)
BorderOf(m) == {OneIndexed(c) : c \in Border(m.height, m.width)}

(* C1: a maze written by main() has start and end inside the grid, neither *)
(* of them a wall, and a path from start to end; main() writes no maze for *)
(* which pathExists(maze) is false.                                        *)
C1_WrittenMazeHasPath ==
  /\ pc = "done" => HasPath(file)
  /\ pc = "write" => mazePathExists(maze)

(* A maze is written after an earlier attempt was rejected and after the   *)
(* in-loop fix changed the walls of the written attempt.                   *)
C1_Witness == pc = "done" /\ attempts > 1 /\ accessibilityInfo > 0

(* C3: every non-wall cell of a maze written by main() is reachable from   *)
(* its start, also when the in-loop fix still reported unreachable cells.  *)
C3_WrittenMazeFullyConnected == pc = "done" => AllReachable(file)

(* C4: main() reports a generation failure only when the maze of the last  *)
(* attempt is not both fully connected and with a start-to-end path.       *)
C4_FailsOnlyWithoutValidMaze ==
  pc = "failed" => ~(AllReachable(maze) /\ HasPath(maze))

(* C5: the attempt counter, the number of calls of generateHedgeMaze,      *)
(* never exceeds maxAttempts.                                              *)
C5_AttemptsWithinCap == attempts <= maxAttempts

(* C9: when findOptimalStartEndPair returns through its primary branch,    *)
(* the row difference and the column difference of start and end are both  *)
(* at least max(width, height) / 2, the division exact.                    *)
C9_PrimarySeparationExactHalf ==
  branch = "primary" =>
    /\ 2 * Abs(maze.start[1] - maze.end[1]) >= Max(maze.width, maze.height)
    /\ 2 * Abs(maze.start[2] - maze.end[2]) >= Max(maze.width, maze.height)

(* C10: all cells of row 1, row height, column 1 and column width are      *)
(* walls in every maze generateHedgeMaze returns, in the maze after the    *)
(* in-loop fix of main(), and in the maze main() writes.                   *)
C10_BorderIsWall ==
  /\ maze # NoMaze => BorderOf(maze) \subseteq maze.walls
  /\ file # NoMaze => BorderOf(file) \subseteq file.walls

(* A maze is written whose walls the in-loop fix has carved.               *)
C10_Witness == pc = "done" /\ connectivityInfo > 0 /\ accessibilityInfo > 0 /\ file = maze

----------------------------------------------------------------------------
(* The basic findOptimalStartEndPair run on a bounded grid.                *)

(* Side of the square grids the placement is run on.                       *)
PlaceSize == 5

(* Most passage cells a grid drawn for the placement has.                  *)
MaxPlaceCells == 4

(* The grids with a wall border and 2..n passage cells, and the grids the  *)
(* basic generateHedgeMaze hands to findOptimalStartEndPair.               *)
PlaceGrids(h, w, n) ==
  {g \in SUBSET (Cells(h, w) \ Border(h, w)) : Cardinality(g) >= 2 /\ Cardinality(g) <= n}
  \cup {g \in SealedMazes(IF h % 2 = 0 THEN h + 1 ELSE h, IF w % 2 = 0 THEN w + 1 ELSE w)
        : h % 2 = 1 /\ w % 2 = 1}

InitPlace ==
  /\ pc = "place0"
  /\ height = PlaceSize
  /\ width = PlaceSize
  /\ grid \in PlaceGrids(PlaceSize, PlaceSize, MaxPlaceCells)
  /\ start = NoCell
  /\ end = NoCell
  /\ branch = "none"
  /\ gridIn = grid /\ gridMid = grid /\ conn1 = 0 /\ conn2 = 0
  /\ attempts = 0 /\ maze = NoMaze /\ file = NoMaze
  /\ connectivityInfo = 0 /\ accessibilityInfo = 0 /\ finalCheck = 0
  /\ artifacts = {} /\ rng = <<0>> /\ walls = <<>>
  /\ ToolsUnused

(* { start, end } = findOptimalStartEndPair(grid, height, width)           *)
PlaceBasic ==
  /\ pc = "place0"
  /\ \E r \in basicFindOptimalStartEndPair(grid, height, width) :
       /\ start' = r[1]
       /\ end' = r[2]
       /\ branch' = r[3]
  /\ pc' = "place1"
  /\ UNCHANGED <<height, width, grid, gridIn, gridMid, conn1, conn2, genVars, toolVars,
                 attempts, maze, connectivityInfo, accessibilityInfo, finalCheck, file>>

NextPlace == PlaceBasic

SpecPlace == InitPlace /\ [][NextPlace]_vars

(* C2: on a grid with at least two open interior cells the basic           *)
(* findOptimalStartEndPair returns different cells as start and end, in    *)
(* every branch.                                                           *)
C2_NoSelfPair == pc = "place1" => start # end

----------------------------------------------------------------------------
(* Repair called twice in succession on a bounded grid.                    *)

(* Side of the square grids the repair functions are run on.               *)
RepairSize == 4

(* Most passage cells an input grid of the repair runs has.                *)
MaxOpenCells == 4

BoundedGrids(h, w, n) == {g \in SUBSET Cells(h, w) : Cardinality(g) <= n}

InitRepair ==
  /\ pc = "repair0"
  /\ height = RepairSize
  /\ width = RepairSize
  /\ grid \in BoundedGrids(RepairSize, RepairSize, MaxOpenCells)
  /\ start \in grid
  /\ end = start
  /\ gridIn = grid
  /\ gridMid = grid
  /\ conn1 = 0
  /\ conn2 = 0
  /\ attempts = 0 /\ maze = NoMaze /\ branch = "none" /\ file = NoMaze
  /\ connectivityInfo = 0 /\ accessibilityInfo = 0 /\ finalCheck = 0
  /\ artifacts = {} /\ rng = <<0>> /\ walls = <<>>
  /\ ToolsUnused

(* First call ensureFullConnectivity(grid, start).                         *)
RepairFirst ==
  /\ pc = "repair0"
  /\ \E r \in ensureFullConnectivity(grid, height, width, start) :
       /\ grid' = r[1]
       /\ gridMid' = r[1]
       /\ conn1' = r[2]
  /\ pc' = "repair1"
  /\ UNCHANGED <<height, width, start, end, gridIn, conn2, mainVars, genVars, toolVars>>

(* Second call, immediately after the first.                               *)
RepairSecond ==
  /\ pc = "repair1"
  /\ \E r \in ensureFullConnectivity(grid, height, width, start) :
       /\ grid' = r[1]
       /\ conn2' = r[2]
  /\ pc' = "repair2"
  /\ UNCHANGED <<height, width, start, end, gridIn, gridMid, conn1, mainVars, genVars, toolVars>>

NextRepair == RepairFirst \/ RepairSecond

SpecRepair == InitRepair /\ [][NextRepair]_vars

(* Every passage cell of g is reachable from s through passages.           *)
FullyConnected(g, h, w, s) == g \subseteq Range(BfsFrom(g, h, w, s))

(* C8: the second of two successive ensureFullConnectivity calls returns 0 *)
(* and changes no cell; a call on a fully connected grid carves nothing.   *)
C8_RepairIdempotent ==
  /\ pc = "repair2" => (conn2 = 0 /\ grid = gridMid)
  /\ (pc = "repair1" /\ FullyConnected(gridIn, height, width, start))
       => (conn1 = 0 /\ grid = gridIn)

(* A second call has run after a first call that carved a corridor.        *)
C8_Witness == pc = "repair2" /\ conn1 > 0 /\ gridMid # gridIn

(* C18: when ensureFullConnectivity(grid, start) returns from a call with  *)
(* a passage start, every passage of the grid is reachable from start, and *)
(* every cell that was a passage before the call still is one.             *)
C18_ConnectsAndOnlyCarves ==
  pc = "repair1" =>
    /\ \A c \in grid : c \in Range(BfsFrom(grid, height, width, start))
    /\ gridIn \subseteq grid

(* The first call joined two or more isolated regions to the start.        *)
C18_Witness ==
  /\ pc = "repair1"
  /\ conn1 >= 2
  /\ gridIn # grid
  /\ start \in gridIn

----------------------------------------------------------------------------
(* Math.random() of the challenge and anti-bot generators: a seeded        *)
(* stream.  The state of the stream is a sequence x of numbers in         *)
(* 0..65535 whose head is the value of the last draw; a draw moves the     *)
(* state to NextRandom(x) and returns Draw(NextRandom(x)) / 65536.  A      *)
(* state of one element is the state of a linear congruential generator;   *)
(* a longer one holds the draws still to come of a recorded sequence.      *)
(* The operators below take the state a draw has produced.  A loop of the  *)
(* source is run by a local Iter(st, k): at most 2^k iterations of Step,   *)
(* stopping when the loop condition fails.                                 *)

(* A run of generateAntiBotMaze(10, 10) can also take its draws from this  *)
(* sequence: draw i is RecordedDraws[i] / 65536.                           *)
RecordedDraws ==
  <<
     22852, 30252, 63453, 26785, 10912, 13410, 35214, 30658, 1884, 10083, 31223, 29791,
     37309, 15343, 63114, 42154, 28626, 11437, 38331, 63579, 19624, 43897, 40928, 13136,
     59174, 35566, 53927, 4722, 52563, 23740, 7231, 8383, 15183, 27916, 21036, 46379,
     41908, 58809, 17378, 3447, 61026, 15436, 45461, 13174, 10628, 47292, 8146, 51336,
     39182, 5191, 60577, 52773, 874, 9530, 63045, 47070, 49748, 16795, 58630, 45845,
     39032, 17707, 26941, 64277, 17438, 52527, 17486, 25168, 13898, 7402, 43213, 55707,
     61268, 26224, 41800, 47401, 17541, 39771, 30771, 11301, 12344, 4856, 23138, 54484,
     34149, 20632, 10923, 0, 1214, 2428, 3641, 4855, 6069, 7282, 8496, 9710,
     20632, 10923, 0, 1214, 2428, 3641, 4855, 6069, 7282, 8496, 9710, 20632,
     10923, 0, 1214, 2428, 3641, 4855, 6069, 7282, 8496, 9710, 20632, 10923,
     0, 1214, 2428, 3641, 4855, 6069, 7282, 8496, 9710, 20632, 10923, 0,
     1214, 2428, 3641, 4855, 6069, 7282, 8496, 9710, 0, 65535, 0, 65535,
     0, 65535, 65535, 0, 0, 65535, 0, 0, 65535, 0, 0, 65535,
     0, 0, 65535, 0, 0, 45632, 47547, 36923, 25093, 33808, 10778, 60741,
     20204, 53222, 60456, 42992, 15675, 22433, 10660, 46789, 34240, 12163, 41688, 19322,
     5388, 37330, 63876, 17630, 47740, 13771, 25572, 45883, 7205, 31468, 64371, 9865,
     63866, 57120, 15936, 35569, 25056, 58905, 25607, 49476, 35180, 16843, 17282, 35670,
     29840, 15344, 53546, 664, 24985, 32991, 5086, 54448, 3291, 47693, 3193, 30453,
     38596, 24890, 5811, 18316, 32557, 9250, 57050, 8403, 8348, 2311, 28176, 21846,
     43691, 0, 49152, 43691, 21846, 0, 49152, 65535, 0, 0, 65535, 21846,
     21846, 0, 43691, 0, 43691, 0, 43691, 21846, 32768, 0, 49152, 21846,
     32768, 0, 0, 0, 65535, 65535, 43691, 0, 0, 0, 0, 0
  >>

(* The value a state of the random stream stands for, as a multiple of     *)
(* 1 / 65536.                                                              *)
Draw(x) == Head(x)

NextRandom(x) == IF Len(x) = 1 THEN <<(20077 * x[1] + 12345) % 65536>> ELSE Tail(x)

(* Math.floor(Math.random() * n)                                           *)
RandomFloor(x, n) == (Draw(x) * n) \div 65536

(* Math.random() < num / den                                               *)
RandomLess(x, num, den) == Draw(x) * den < num * 65536

(* The cells of rows y0..y1 and columns x0..x1 in the order of the loops   *)
(* for (y = y0; y <= y1; y++) for (x = x0; x <= x1; x++).                  *)
Rect(y0, y1, x0, x1) ==
  IF y1 < y0 \/ x1 < x0 THEN <<>>
  ELSE [k \in 1..((y1 - y0 + 1) * (x1 - x0 + 1)) |->
          <<y0 + ((k - 1) \div (x1 - x0 + 1)), x0 + ((k - 1) % (x1 - x0 + 1))>>]

(* for each cell of cells: if (Math.random() < num / den) grid[cell] = 0   *)
RandomOpen(g, x, cells, num, den) ==
  LET Body(st) ==
        LET x1 == NextRandom(st.rng)
        IN [grid |-> IF RandomLess(x1, num, den) THEN st.grid \cup {cells[st.i]} ELSE st.grid,
            rng |-> x1, i |-> st.i + 1]
      RECURSIVE Iter(_, _)
      Iter(st, k) ==
        IF st.i > Len(cells) THEN st
        ELSE IF k = 0 THEN Body(st) ELSE Iter(Iter(st, k - 1), k - 1)
      Result(r) == [grid |-> r.grid, rng |-> r.rng]
  IN Result(Iter([grid |-> g, rng |-> x, i |-> 1], 10))

(* do { y = lo + floor(random * nh); x = lo + floor(random * nw);          *)
(* attempts++ } while (grid[y][x] is not the wanted kind && attempts < 100)*)
PickCell(g, x, lo, nh, nw, wantOpen) ==
  LET Body(st) ==
        LET x1 == NextRandom(st.rng)
            x2 == NextRandom(x1)
        IN [cell |-> <<lo + RandomFloor(x1, nh), lo + RandomFloor(x2, nw)>>,
            rng |-> x2, attempts |-> st.attempts + 1]
      RECURSIVE Iter(_, _)
      Iter(st, k) ==
        IF st.attempts > 0 /\ (((st.cell \in g) = wantOpen) \/ st.attempts >= 100) THEN st
        ELSE IF k = 0 THEN Body(st) ELSE Iter(Iter(st, k - 1), k - 1)
  IN Iter([cell |-> NoCell, rng |-> x, attempts |-> 0], 7)

----------------------------------------------------------------------------
(* The challenge maze generator (challenge_maze_gen.js).                   *)

(* createBaseMaze: randomized Prim from a random odd cell, then            *)
(* floor(width * height * 0.05) random interior cells opened.  A wall-list *)
(* entry is <<wall cell, opposite cell>>, pushed as in generateHedgeMaze.  *)
challengeCreateBaseMaze(h, w, x) ==
  LET x1 == NextRandom(x)
      x2 == NextRandom(x1)
      startCell == <<1 + 2 * RandomFloor(x1, (h - 1) \div 2),
                     1 + 2 * RandomFloor(x2, (w - 1) \div 2)>>
      Carve(st) ==
        LET x3 == NextRandom(st.rng)
            i == RandomFloor(x3, Len(st.walls)) + 1
            e == st.walls[i]
            rest == SubSeq(st.walls, 1, i - 1) \o SubSeq(st.walls, i + 1, Len(st.walls))
        IN IF /\ InGrid(h, w, e[2])
              /\ \/ startCell \in st.grid /\ e[2] \notin st.grid
                 \/ startCell \notin st.grid /\ e[2] \in st.grid
           THEN LET g2 == st.grid \cup {e[1], e[2]}
                IN [grid |-> g2, rng |-> x3, walls |-> rest \o PrimWalls(g2, h, w, e[2])]
           ELSE [grid |-> st.grid, rng |-> x3, walls |-> rest]
      RECURSIVE Iter(_, _)
      Iter(st, k) ==
        IF st.walls = <<>> THEN st
        ELSE IF k = 0 THEN Carve(st) ELSE Iter(Iter(st, k - 1), k - 1)
      carved == Iter([grid |-> {startCell}, rng |-> x2,
                      walls |-> PrimWalls({startCell}, h, w, startCell)], 12)
      numPassagesToAdd == (w * h * 5) \div 100
      Passage(st) ==
        LET x3 == NextRandom(st.rng)
            x4 == NextRandom(x3)
        IN [grid |-> st.grid \cup {<<1 + RandomFloor(x3, h - 2), 1 + RandomFloor(x4, w - 2)>>},
            rng |-> x4, i |-> st.i + 1]
      RECURSIVE IterPassages(_, _)
      IterPassages(st, k) ==
        IF st.i >= numPassagesToAdd THEN st
        ELSE IF k = 0 THEN Passage(st) ELSE IterPassages(IterPassages(st, k - 1), k - 1)
      Result(r) == [grid |-> r.grid, rng |-> r.rng]
  IN Result(IterPassages([grid |-> carved.grid, rng |-> carved.rng, i |-> 0], 10))

(* addOpenArea: the square of radius floor(min(width, height) * 0.15)      *)
(* around the centre, each cell opened with probability 0.8; then each     *)
(* open cell of the square walled with probability 0.15.                   *)
challengeAddOpenArea(g, x, h, w) ==
  LET centerY == h \div 2
      centerX == w \div 2
      radius == (Min(w, h) * 15) \div 100
      cells == SelectSeq(Rect(centerY - radius, centerY + radius,
                              centerX - radius, centerX + radius),
                         LAMBDA c : InGrid(h, w, c))
      opened == RandomOpen(g, x, cells, 8, 10)
      Sparse(st) ==
        IF cells[st.i] \in st.grid
        THEN LET x1 == NextRandom(st.rng)
             IN [grid |-> IF RandomLess(x1, 15, 100) THEN st.grid \ {cells[st.i]} ELSE st.grid,
                 rng |-> x1, i |-> st.i + 1]
        ELSE [st EXCEPT !.i = st.i + 1]
      RECURSIVE Iter(_, _)
      Iter(st, k) ==
        IF st.i > Len(cells) THEN st
        ELSE IF k = 0 THEN Sparse(st) ELSE Iter(Iter(st, k - 1), k - 1)
      Result(r) == [grid |-> r.grid, rng |-> r.rng]
  IN Result(Iter([grid |-> opened.grid, rng |-> opened.rng, i |-> 1], 10))

(* calculatePathLength(grid, start, end): the distance with which the BFS  *)
(* dequeues end, 0 when the queue runs dry before.  dist is the distance   *)
(* of the cells of frontier.  visited is built from a string, so it starts *)
(* without the start cell; grid[start] is never tested.                    *)
calculatePathLength(g, s, e) ==
  LET Level(st) ==
        LET next == (UNION {OpenNeighbours(g, c) : c \in st.frontier}) \ st.visited
        IN [frontier |-> next, visited |-> st.visited \cup next, dist |-> st.dist + 1]
      RECURSIVE Iter(_, _)
      Iter(st, k) ==
        IF e \in st.frontier \/ st.frontier = {} THEN st
        ELSE IF k = 0 THEN Level(st) ELSE Iter(Iter(st, k - 1), k - 1)
      Result(r) == IF e \in r.frontier THEN r.dist ELSE 0
  IN Result(Iter([frontier |-> {s}, visited |-> {}, dist |-> 0], 12))

(* placeStartEnd on a grid with open cells (createBaseMaze leaves some):   *)
(* the four corner pairs, then, when the best path is shorter than         *)
(* width * height * 0.2, random pairs of open cells; the first and last    *)
(* open cell when no pair is connected.                                    *)
challengePlaceStartEnd(g, x, h, w) ==
  LET openCells == RowMajor(g, h, w)
      n == Len(openCells)
      findClosestOpenCell(c) ==
        CHOOSE o \in g : \A p \in g :
          \/ SquaredDist(c, o) < SquaredDist(c, p)
          \/ SquaredDist(c, o) = SquaredDist(c, p) /\ o[1] * w + o[2] <= p[1] * w + p[2]
      potentialCorners == << << <<1, 1>>, <<h - 2, w - 2>> >>,
                             << <<1, w - 2>>, <<h - 2, 1>> >>,
                             << <<h - 2, 1>>, <<1, w - 2>> >>,
                             << <<h - 2, w - 2>>, <<1, 1>> >> >>
      Corner(st, i) ==
        LET closestStart == findClosestOpenCell(potentialCorners[i][1])
            closestEnd == findClosestOpenCell(potentialCorners[i][2])
            distance == calculatePathLength(g, closestStart, closestEnd)
        IN IF distance > st.maxDistance
           THEN [st EXCEPT !.maxDistance = distance, !.start = closestStart, !.end = closestEnd]
           ELSE st
      Attempt(st) ==
        LET x1 == NextRandom(st.rng)
            x2 == NextRandom(x1)
            startIdx == RandomFloor(x1, n) + 1
            endIdx == RandomFloor(x2, n) + 1
            distance == calculatePathLength(g, openCells[startIdx], openCells[endIdx])
        IN IF startIdx # endIdx /\ distance > st.maxDistance
           THEN [maxDistance |-> distance, start |-> openCells[startIdx],
                 end |-> openCells[endIdx], rng |-> x2, i |-> st.i + 1]
           ELSE [st EXCEPT !.rng = x2, !.i = st.i + 1]
      RECURSIVE Iter(_, _)
      Iter(st, k) ==
        IF ~(st.i < 50 /\ 10 * st.i < n) THEN st
        ELSE IF k = 0 THEN Attempt(st) ELSE Iter(Iter(st, k - 1), k - 1)
      Sampled(corners) ==
        IF 5 * corners.maxDistance < w * h THEN Iter(corners, 6) ELSE corners
      Result(best) ==
        IF best.start # NoCell /\ best.end # NoCell
        THEN [grid |-> g, rng |-> best.rng, start |-> best.start, end |-> best.end]
        ELSE IF n >= 2
        THEN [grid |-> g, rng |-> best.rng, start |-> openCells[1], end |-> openCells[n]]
        ELSE [grid |-> g \cup {<<1, 1>>, <<h - 2, w - 2>>}, rng |-> best.rng,
              start |-> <<1, 1>>, end |-> <<h - 2, w - 2>>]
  IN Result(Sampled(Corner(Corner(Corner(Corner(
       [maxDistance |-> 0, start |-> NoCell, end |-> NoCell, rng |-> x, i |-> 0],
       1), 2), 3), 4)))

(* addDeceptivePaths: from a random open cell a path of up to              *)
(* floor(min(width, height) / 3) cells, each step toward the end with      *)
(* probability 0.8; then a wall, with probability 0.8, on each in-grid     *)
(* neighbour of the last position that is neither start nor end.           *)
challengeAddDeceptivePaths(g, x, h, w, s, e) ==
  LET numPaths == Min(30, Max(w, h) \div 4)
      maxLength == Min(w, h) \div 3
      dirToEndY == Sign(e[1] - s[1])
      dirToEndX == Sign(e[2] - s[2])
      Walk(st) ==
        LET x1 == NextRandom(st.rng)
            toward == RandomLess(x1, 8, 10)
            x2 == IF toward THEN x1 ELSE NextRandom(x1)
            n == IF toward
                 THEN IF Abs(e[1] - st.current[1]) > Abs(e[2] - st.current[2])
                      THEN <<st.current[1] + dirToEndY, st.current[2]>>
                      ELSE <<st.current[1], st.current[2] + dirToEndX>>
                 ELSE Step(st.current, Dirs[RandomFloor(x2, 4) + 1])
        IN IF InGrid(h, w, n)
           THEN [grid |-> st.grid \cup {n}, rng |-> x2, current |-> n,
                 length |-> st.length + 1, out |-> FALSE]
           ELSE [grid |-> st.grid, rng |-> x2, current |-> n,
                 length |-> st.length, out |-> TRUE]
      RECURSIVE IterWalk(_, _)
      IterWalk(st, k) ==
        IF st.out \/ st.length >= maxLength THEN st
        ELSE IF k = 0 THEN Walk(st) ELSE IterWalk(IterWalk(st, k - 1), k - 1)
      DeadEnd(st, c, i) ==
        LET n == Step(c, Dirs[i])
            x1 == NextRandom(st.rng)
        IN IF InGrid(h, w, n) /\ n # e /\ n # s
           THEN [grid |-> IF RandomLess(x1, 8, 10) THEN st.grid \ {n} ELSE st.grid, rng |-> x1]
           ELSE st
      Path(st) ==
        LET pick == PickCell(st.grid, st.rng, 0, h, w, TRUE)
            walked == IterWalk([grid |-> st.grid, rng |-> pick.rng, current |-> pick.cell,
                                length |-> 0, out |-> FALSE], 10)
            c == walked.current
            closed == DeadEnd(DeadEnd(DeadEnd(DeadEnd(
                        [grid |-> walked.grid, rng |-> walked.rng], c, 1), c, 2), c, 3), c, 4)
        IN IF pick.attempts >= 100
           THEN [grid |-> st.grid, rng |-> pick.rng, i |-> st.i + 1]
           ELSE [grid |-> closed.grid, rng |-> closed.rng, i |-> st.i + 1]
      RECURSIVE Iter(_, _)
      Iter(st, k) ==
        IF st.i >= numPaths THEN st
        ELSE IF k = 0 THEN Path(st) ELSE Iter(Iter(st, k - 1), k - 1)
      Result(r) == [grid |-> r.grid, rng |-> r.rng]
  IN Result(Iter([grid |-> g, rng |-> x, i |-> 0], 5))

(* addNarrowWindingPassages: from a random open cell a passage of up to    *)
(* floor(min(width, height) / 2) interior cells that keeps its direction   *)
(* with probability 0.7 and never turns back; the two cells beside every   *)
(* cell of the passage are set to wall, whatever they are.                 *)
challengeAddNarrowWindingPassages(g, x, h, w) ==
  LET numPassages == Min(10, Min(w, h) \div 10)
      maxLength == Min(w, h) \div 2
      Walk(st) ==
        LET x1 == NextRandom(st.rng)
            same == RandomLess(x1, 7, 10)
            x2 == IF same THEN x1 ELSE NextRandom(x1)
            availableDirs == SelectSeq(Dirs, LAMBDA d :
                               ~(d[1] = -st.lastDir[1] /\ d[2] = -st.lastDir[2]))
            dir == IF same THEN st.lastDir
                   ELSE availableDirs[RandomFloor(x2, Len(availableDirs)) + 1]
            n == Step(st.current, dir)
            perpDir == <<dir[2], -dir[1]>>
            sides == {<<n[1] + perpDir[1], n[2] + perpDir[2]>>,
                      <<n[1] - perpDir[1], n[2] - perpDir[2]>>}
        IN IF n[1] < 1 \/ n[1] >= h - 1 \/ n[2] < 1 \/ n[2] >= w - 1
           THEN [st EXCEPT !.rng = x2, !.current = n, !.out = TRUE]
           ELSE [grid |-> (st.grid \cup {n}) \ {c \in sides : InGrid(h, w, c)},
                 rng |-> x2, current |-> n, lastDir |-> dir,
                 length |-> st.length + 1, out |-> FALSE]
      RECURSIVE IterWalk(_, _)
      IterWalk(st, k) ==
        IF st.out \/ st.length >= maxLength THEN st
        ELSE IF k = 0 THEN Walk(st) ELSE IterWalk(IterWalk(st, k - 1), k - 1)
      Passage(st) ==
        LET pick == PickCell(st.grid, st.rng, 0, h, w, TRUE)
            x1 == NextRandom(pick.rng)
            walked == IterWalk([grid |-> st.grid, rng |-> x1, current |-> pick.cell,
                                lastDir |-> Dirs[RandomFloor(x1, 4) + 1],
                                length |-> 0, out |-> FALSE], 10)
        IN IF pick.attempts >= 100
           THEN [grid |-> st.grid, rng |-> pick.rng, i |-> st.i + 1]
           ELSE [grid |-> walked.grid, rng |-> walked.rng, i |-> st.i + 1]
      RECURSIVE Iter(_, _)
      Iter(st, k) ==
        IF st.i >= numPassages THEN st
        ELSE IF k = 0 THEN Passage(st) ELSE Iter(Iter(st, k - 1), k - 1)
      Result(r) == [grid |-> r.grid, rng |-> r.rng]
  IN Result(Iter([grid |-> g, rng |-> x, i |-> 0], 4))

(* addMemoryIntensiveRegions: around a random open cell, the interior      *)
(* cells within floor(min(width, height) / 8), each opened with            *)
(* probability 0.7.                                                        *)
challengeAddMemoryIntensiveRegions(g, x, h, w) ==
  LET numRegions == Min(8, Min(w, h) \div 15)
      regionSize == Min(w, h) \div 8
      Region(st) ==
        LET pick == PickCell(st.grid, st.rng, 0, h, w, TRUE)
            c == pick.cell
            opened == RandomOpen(st.grid, pick.rng,
                                 Rect(Max(1, c[1] - regionSize), Min(h - 2, c[1] + regionSize),
                                      Max(1, c[2] - regionSize), Min(w - 2, c[2] + regionSize)),
                                 7, 10)
        IN IF pick.attempts >= 100
           THEN [grid |-> st.grid, rng |-> pick.rng, i |-> st.i + 1]
           ELSE [grid |-> opened.grid, rng |-> opened.rng, i |-> st.i + 1]
      RECURSIVE Iter(_, _)
      Iter(st, k) ==
        IF st.i >= numRegions THEN st
        ELSE IF k = 0 THEN Region(st) ELSE Iter(Iter(st, k - 1), k - 1)
      Result(r) == [grid |-> r.grid, rng |-> r.rng]
  IN Result(Iter([grid |-> g, rng |-> x, i |-> 0], 3))

(* addStrategicLoops: a random interior wall is opened when it lies        *)
(* between two open cells, vertically, horizontally or diagonally.         *)
challengeAddStrategicLoops(g, x, h, w) ==
  LET numLoops == Min(50, (w * h) \div 100)
      Loop(st) ==
        LET pick == PickCell(st.grid, st.rng, 1, h - 2, w - 2, FALSE)
            y == pick.cell[1]
            cx == pick.cell[2]
            open(c) == c \in st.grid
            hasNorthSouth == y > 0 /\ y < h - 1 /\ open(<<y - 1, cx>>) /\ open(<<y + 1, cx>>)
            hasEastWest == cx > 0 /\ cx < w - 1 /\ open(<<y, cx - 1>>) /\ open(<<y, cx + 1>>)
            hasDiagonal == /\ y > 0 /\ y < h - 1 /\ cx > 0 /\ cx < w - 1
                           /\ \/ open(<<y - 1, cx - 1>>) /\ open(<<y + 1, cx + 1>>)
                              \/ open(<<y - 1, cx + 1>>) /\ open(<<y + 1, cx - 1>>)
        IN IF pick.attempts < 100 /\ (hasNorthSouth \/ hasEastWest \/ hasDiagonal)
           THEN [grid |-> st.grid \cup {pick.cell}, rng |-> pick.rng, i |-> st.i + 1]
           ELSE [grid |-> st.grid, rng |-> pick.rng, i |-> st.i + 1]
      RECURSIVE Iter(_, _)
      Iter(st, k) ==
        IF st.i >= numLoops THEN st
        ELSE IF k = 0 THEN Loop(st) ELSE Iter(Iter(st, k - 1), k - 1)
      Result(r) == [grid |-> r.grid, rng |-> r.rng]
  IN Result(Iter([grid |-> g, rng |-> x, i |-> 0], 6))

(* addHeuristicTraps, for start # end.  Trap i lies at                     *)
(* floor(start + vector * (0.2 + 0.6 * i / numTraps)), which is            *)
(* floor((start * 5 * numTraps + vector * (numTraps + 3 * i)) /            *)
(* (5 * numTraps)).  Math.round of a component a / sqrt(a * a + b * b) of  *)
(* the normalized vector is 1 when a > 0 and 3 * a * a >= b * b, -1 when   *)
(* a < 0 and 3 * a * a > b * b, and 0 otherwise.  The four in-grid         *)
(* neighbours of the last position of the trap's path are set to wall,     *)
(* whatever they are.                                                      *)
challengeAddHeuristicTraps(g, x, h, w, s, e) ==
  LET numTraps == Min(15, Min(w, h) \div 10)
      directVectorY == e[1] - s[1]
      directVectorX == e[2] - s[2]
      Round(a, b) == IF a > 0 /\ 3 * a * a >= b * b THEN 1
                     ELSE IF a < 0 /\ 3 * a * a > b * b THEN -1 ELSE 0
      toward == <<Round(directVectorY, directVectorX), Round(directVectorX, directVectorY)>>
      away == <<Round(-directVectorX, directVectorY), Round(directVectorY, directVectorX)>>
      inside(c) == ~(c[1] < 1 \/ c[1] >= h - 1 \/ c[2] < 1 \/ c[2] >= w - 1)
      (* for (step = 0; step < steps; step++) { current += dir; if (out)   *)
      (* break; grid[current] = 0 }                                        *)
      Line(st, dir, steps) ==
        LET Move(t) ==
              LET n == Step(t.current, dir)
              IN IF inside(n)
                 THEN [grid |-> t.grid \cup {n}, current |-> n, step |-> t.step + 1, out |-> FALSE]
                 ELSE [grid |-> t.grid, current |-> n, step |-> t.step, out |-> TRUE]
            RECURSIVE IterLine(_, _)
            IterLine(t, k) ==
              IF t.out \/ t.step >= steps THEN t
              ELSE IF k = 0 THEN Move(t) ELSE IterLine(IterLine(t, k - 1), k - 1)
        IN IterLine([grid |-> st.grid, current |-> st.current, step |-> 0, out |-> FALSE], 5)
      Trap(st) ==
        LET trap == <<(s[1] * 5 * numTraps + directVectorY * (numTraps + 3 * st.i))
                        \div (5 * numTraps),
                      (s[2] * 5 * numTraps + directVectorX * (numTraps + 3 * st.i))
                        \div (5 * numTraps)>>
            near == {c \in Range(Rect(Max(1, trap[1] - 5), Min(h - 2, trap[1] + 5),
                                      Max(1, trap[2] - 5), Min(w - 2, trap[2] + 5)))
                     : c \in st.grid}
            closest == IF near = {} THEN trap
                       ELSE CHOOSE o \in near : \A p \in near :
                              \/ SquaredDist(trap, o) < SquaredDist(trap, p)
                              \/ /\ SquaredDist(trap, o) = SquaredDist(trap, p)
                                 /\ o[1] * w + o[2] <= p[1] * w + p[2]
            cleared == RandomOpen(st.grid, st.rng,
                                  Rect(Max(1, closest[1] - 2), Min(h - 2, closest[1] + 2),
                                       Max(1, closest[2] - 2), Min(w - 2, closest[2] + 2)),
                                  7, 10)
            promising == Line([grid |-> cleared.grid, current |-> closest], toward, 10)
            diverging == Line(promising, away, 15)
            deadEnd == {n \in {Step(diverging.current, Dirs[i]) : i \in 1..4} : InGrid(h, w, n)}
        IN IF ~inside(trap)
           THEN [st EXCEPT !.i = st.i + 1]
           ELSE [grid |-> diverging.grid \ deadEnd, rng |-> cleared.rng, i |-> st.i + 1]
      RECURSIVE Iter(_, _)
      Iter(st, k) ==
        IF st.i >= numTraps THEN st
        ELSE IF k = 0 THEN Trap(st) ELSE Iter(Iter(st, k - 1), k - 1)
      Result(r) == [grid |-> r.grid, rng |-> r.rng]
  IN Result(Iter([grid |-> g, rng |-> x, i |-> 0], 4))

(* ensureValidPath: when calculatePathLength reports no path, the cells of *)
(* a direct walk from start to end are opened, each after the move onto    *)
(* it: the start cell itself is not written.  The walk never leaves the    *)
(* grid and ends within width + height steps.                              *)
challengeEnsureValidPath(g, s, e) ==
  IF calculatePathLength(g, s, e) > 0 THEN g ELSE g \cup Range(CarvePath(s, e))

(* The size given on the command line of the challenge generator.          *)
ChallengeSize == 20

(* Number of seeds of the random stream the challenge generator is run     *)
(* with: 0 .. ChallengeSeeds - 1.                                          *)
ChallengeSeeds == 16

InitChallenge ==
  /\ pc = "createBaseMaze"
  /\ height = ChallengeSize
  /\ width = ChallengeSize
  /\ rng \in {<<seed>> : seed \in 0..(ChallengeSeeds - 1)}
  /\ grid = {}
  /\ start = NoCell
  /\ end = NoCell
  /\ maze = NoMaze
  /\ gridIn = {} /\ gridMid = {} /\ conn1 = 0 /\ conn2 = 0
  /\ attempts = 0 /\ branch = "none" /\ file = NoMaze
  /\ connectivityInfo = 0 /\ accessibilityInfo = 0 /\ finalCheck = 0
  /\ artifacts = {}
  /\ walls = <<>>
  /\ ToolsUnused

(* generateChallengeMaze(width, height), one call of its body at a time;   *)
(* pc names the next call.  The last step builds walls_list and returns    *)
(* the maze with start and end 1-indexed.                                  *)
generateChallengeMaze ==
  LET Carved(r) == grid' = r.grid /\ rng' = r.rng
      Placed(r) == grid' = r.grid /\ rng' = r.rng /\ start' = r.start /\ end' = r.end
  IN /\ \/ /\ pc = "createBaseMaze"
             /\ Carved(challengeCreateBaseMaze(height, width, rng))
             /\ pc' = "addOpenArea"
             /\ UNCHANGED <<start, end, maze>>
          \/ /\ pc = "addOpenArea"
             /\ Carved(challengeAddOpenArea(grid, rng, height, width))
             /\ pc' = "placeStartEnd"
             /\ UNCHANGED <<start, end, maze>>
          \/ /\ pc = "placeStartEnd"
             /\ Placed(challengePlaceStartEnd(grid, rng, height, width))
             /\ pc' = "addDeceptivePaths"
             /\ UNCHANGED maze
          \/ /\ pc = "addDeceptivePaths"
             /\ Carved(challengeAddDeceptivePaths(grid, rng, height, width, start, end))
             /\ pc' = "addNarrowWindingPassages"
             /\ UNCHANGED <<start, end, maze>>
          \/ /\ pc = "addNarrowWindingPassages"
             /\ Carved(challengeAddNarrowWindingPassages(grid, rng, height, width))
             /\ pc' = "addMemoryIntensiveRegions"
             /\ UNCHANGED <<start, end, maze>>
          \/ /\ pc = "addMemoryIntensiveRegions"
             /\ Carved(challengeAddMemoryIntensiveRegions(grid, rng, height, width))
             /\ pc' = "addStrategicLoops"
             /\ UNCHANGED <<start, end, maze>>
          \/ /\ pc = "addStrategicLoops"
             /\ Carved(challengeAddStrategicLoops(grid, rng, height, width))
             /\ pc' = "addHeuristicTraps"
             /\ UNCHANGED <<start, end, maze>>
          \/ /\ pc = "addHeuristicTraps"
             /\ Carved(challengeAddHeuristicTraps(grid, rng, height, width, start, end))
             /\ pc' = "ensureValidPath"
             /\ UNCHANGED <<start, end, maze>>
          \/ /\ pc = "ensureValidPath"
             /\ grid' = challengeEnsureValidPath(grid, start, end)
             /\ pc' = "wallsList"
             /\ UNCHANGED <<start, end, maze, rng>>
          \/ /\ pc = "wallsList"
             /\ maze' = [width |-> width, height |-> height,
                         start |-> OneIndexed(start), end |-> OneIndexed(end),
                         walls |-> WallsList(grid, height, width)]
             /\ pc' = "returned"
             /\ UNCHANGED <<grid, start, end, rng>>
       /\ UNCHANGED <<height, width, gridIn, gridMid, conn1, conn2, artifacts, walls, toolVars,
                      attempts, branch, connectivityInfo, accessibilityInfo, finalCheck, file>>

NextChallenge == generateChallengeMaze

SpecChallenge == InitChallenge /\ [][NextChallenge]_vars

(* C6: in the maze generateChallengeMaze returns, neither start nor end is *)
(* an entry of walls.                                                      *)
C6_StartEndNotInWalls ==
  pc = "returned" => (maze.start \notin maze.walls /\ maze.end \notin maze.walls)

----------------------------------------------------------------------------
----------------------------------------------------------------------------
(* The anti-bot maze generator (anti_bot_maze_gen.js).                     *)
(*                                                                         *)
(* Its grid can gain cells outside the height x width rectangle:           *)
(* connectToMainMaze writes grid[cy][cx] for the coordinates it is called  *)
(* with, and a walk that has left the grid hands it a cell of row -1, row  *)
(* height, column -1 or column width.  A write to a row that does not      *)
(* exist throws a TypeError, which nothing catches: the run ends without   *)
(* an artifact.  A write at column -1 sets a property no code reads; a     *)
(* write at column width makes that row one cell longer.  Such cells are   *)
(* kept in the set of passage cells.                                       *)

(* grid[0].length                                                          *)
RowZeroLength(g, w) == IF <<0, w>> \in g THEN w + 1 ELSE w

(* Math.floor(Math.sqrt(n))                                                *)
FloorSqrt(n) == CHOOSE k \in 0..n : k * k <= n /\ (k + 1) * (k + 1) > n

(* Math.floor(a + (b - a) * (0.2 + Math.random() * 0.6))                   *)
RandomBetween(x, a, b) == (a * 327680 + (b - a) * (65536 + 3 * Draw(x))) \div 327680

(* Math.floor(Math.random() * n / d)                                       *)
RandomFloorOver(x, n, d) == (Draw(x) * n) \div (65536 * d)

(* calculateShortestPath(grid, start, end): the BFS of calculatePathLength *)
(* over the cells of rows 0..grid.length-1 and columns                     *)
(* 0..grid[0].length-1.                                                    *)
calculateShortestPath(g, h, w, s, e) ==
  calculatePathLength({c \in g : InGrid(h, RowZeroLength(g, w), c)}, s, e)

(* connectToMainMaze(grid, width, height, y, x).  The BFS runs over the    *)
(* in-grid wall cells around c; visited starts empty (it is built from a   *)
(* string).  The first dequeued cell with an open in-grid neighbour is set *)
(* to passage, c itself when it is the first.  When the queue runs dry, a  *)
(* walk from c toward the centre opens cells until it meets a visited one. *)
connectToMainMaze(g, h, w, c) ==
  LET Visit(st) ==
        LET cur == st.queue[st.i]
            new == SelectSeq([j \in 1..4 |-> Step(cur, Dirs[j])],
                             LAMBDA n : InGrid(h, w, n) /\ n \notin st.visited)
        IN IF \E j \in 1..Len(new) : new[j] \in g
           THEN [st EXCEPT !.hit = TRUE]
           ELSE [queue |-> st.queue \o new, i |-> st.i + 1,
                 visited |-> st.visited \cup Range(new), hit |-> FALSE]
      RECURSIVE Iter(_, _)
      Iter(st, k) ==
        IF st.hit \/ st.i > Len(st.queue) THEN st
        ELSE IF k = 0 THEN Visit(st) ELSE Iter(Iter(st, k - 1), k - 1)
      bfs == Iter([queue |-> <<c>>, i |-> 1, visited |-> {}, hit |-> FALSE], 9)
      found == bfs.queue[bfs.i]
      Toward(st) ==
        LET cy == IF 2 * st.current[1] < h THEN Min(st.current[1] + 1, h - 1)
                  ELSE Max(st.current[1] - 1, 0)
            cx == IF 2 * st.current[2] < w THEN Min(st.current[2] + 1, w - 1)
                  ELSE Max(st.current[2] - 1, 0)
            n == <<Max(0, Min(h - 1, cy)), Max(0, Min(w - 1, cx))>>
        IN [grid |-> st.grid \cup {n}, current |-> n,
            visited |-> st.visited \cup {n}, done |-> n \in st.visited]
      RECURSIVE IterToward(_, _)
      IterToward(st, k) ==
        IF \/ st.done
           \/ InGrid(h, w, st.current) /\ st.current \in st.grid /\ st.current \notin st.visited
        THEN st
        ELSE IF k = 0 THEN Toward(st) ELSE IterToward(IterToward(st, k - 1), k - 1)
  IN IF bfs.hit
     THEN IF found[1] < 0 \/ found[1] >= h
          THEN [grid |-> g, crashed |-> TRUE]
          ELSE [grid |-> g \cup {found}, crashed |-> FALSE]
     ELSE [grid |-> IterToward([grid |-> g, current |-> c, visited |-> bfs.visited,
                                done |-> FALSE], 7).grid,
           crashed |-> FALSE]

(* One iteration of the loop of createWindingPath from the cell c toward   *)
(* e: the position after the move and the clamp to the grid.  direct,      *)
(* toward and first are the outcomes of the tests Math.random() < 0.6,     *)
(* Math.random() < 0.7 and Math.random() < 0.5.                            *)
windingMove(c, e, h, w, direct, toward, first) ==
  LET cy == c[1]
      cx == c[2]
      yFar == Abs(cy - e[1]) > Abs(cx - e[2])
      side == IF first THEN -1 ELSE 1
      n == IF direct
           THEN IF yFar THEN <<cy + Sign(e[1] - cy), cx>>
                ELSE <<cy, cx + Sign(e[2] - cx)>>
           ELSE IF toward
           THEN IF first /\ cy # e[1] THEN <<cy + Sign(e[1] - cy), cx>>
                ELSE IF cx # e[2] THEN <<cy, cx + Sign(e[2] - cx)>>
                ELSE <<cy + Sign(e[1] - cy), cx>>
           ELSE IF yFar THEN <<cy, cx + side>> ELSE <<cy + side, cx>>
  IN <<Max(0, Min(h - 1, n[1])), Max(0, Min(w - 1, n[2]))>>

(* createWindingPath(grid, width, height, startY, startX, endY, endX): the *)
(* cells of the path and its length; the path stops short of e when it has *)
(* grown longer than 2 * max(width, height).                               *)
createWindingPath(h, w, x, s, e) ==
  LET Move(st) ==
        LET x1 == NextRandom(st.rng)
            x2 == NextRandom(x1)
            x3 == NextRandom(x2)
            direct == RandomLess(x1, 6, 10)
            cur == windingMove(st.current, e, h, w, direct,
                               RandomLess(x2, 7, 10), RandomLess(x3, 5, 10))
        IN [current |-> cur, rng |-> IF direct THEN x1 ELSE x3,
            cells |-> st.cells \cup {cur}, length |-> st.length + 1]
      RECURSIVE Iter(_, _)
      Iter(st, k) ==
        IF st.current = e \/ st.length > 2 * Max(w, h) THEN st
        ELSE IF k = 0 THEN Move(st) ELSE Iter(Iter(st, k - 1), k - 1)
  IN Iter([current |-> s, rng |-> x, cells |-> {}, length |-> 0], 8)

(* openBorders: max(4, floor(sqrt(max(width, height)))) times, a random    *)
(* side and a random position on it; the border cell and the cell inside   *)
(* it are opened.                                                          *)
openBorders(g, x, h, w) ==
  LET numOpenings == Max(4, FloorSqrt(Max(w, h)))
      Opening(st) ==
        LET x1 == NextRandom(st.rng)
            x2 == NextRandom(x1)
            side == RandomFloor(x1, 4)
            acrossX == 1 + RandomFloor(x2, w - 2)
            acrossY == 1 + RandomFloor(x2, h - 2)
            opened == IF side = 0 THEN {<<0, acrossX>>, <<1, acrossX>>}
                      ELSE IF side = 1 THEN {<<acrossY, w - 1>>, <<acrossY, w - 2>>}
                      ELSE IF side = 2 THEN {<<h - 1, acrossX>>, <<h - 2, acrossX>>}
                      ELSE {<<acrossY, 0>>, <<acrossY, 1>>}
        IN [grid |-> st.grid \cup opened, rng |-> x2, i |-> st.i + 1]
      RECURSIVE Iter(_, _)
      Iter(st, k) ==
        IF st.i >= numOpenings THEN st
        ELSE IF k = 0 THEN Opening(st) ELSE Iter(Iter(st, k - 1), k - 1)
      Result(r) == [grid |-> r.grid, rng |-> r.rng]
  IN Result(Iter([grid |-> g, rng |-> x, i |-> 0], 5))

(* createPerfectMaze: the recursive carvePassage run with an explicit      *)
(* stack; a frame holds the cell, its shuffled directions and the index of *)
(* the next direction to try.  The cells of row adjustedHeight and column  *)
(* adjustedWidth (even sizes) are never marked visited beforehand.         *)
createPerfectMaze(h, w, x) ==
  LET directions == << <<-2, 0>>, <<0, 2>>, <<2, 0>>, <<0, -2>> >>
      Swap(q, i, j) == [q EXCEPT ![i] = q[j], ![j] = q[i]]
      x1 == NextRandom(x)
      x2 == NextRandom(x1)
      startCell == <<1 + 2 * RandomFloor(x1, (h - 1) \div 2),
                     1 + 2 * RandomFloor(x2, (w - 1) \div 2)>>
      adjustedHeight == IF h % 2 = 0 THEN h - 1 ELSE h
      adjustedWidth == IF w % 2 = 0 THEN w - 1 ELSE w
      skipped == {c \in Cells(h, w) : /\ c[1] < adjustedHeight /\ c[2] < adjustedWidth
                                     /\ ~(c[1] % 2 = 1 /\ c[2] % 2 = 1)}
      carvePassage(st, c) ==
        LET y1 == NextRandom(st.rng)
            y2 == NextRandom(y1)
            y3 == NextRandom(y2)
            shuffledDirections ==
              Swap(Swap(Swap(directions, 4, RandomFloor(y1, 4) + 1),
                        3, RandomFloor(y2, 3) + 1),
                   2, RandomFloor(y3, 2) + 1)
        IN [grid |-> st.grid \cup {c}, visited |-> st.visited \cup {c}, rng |-> y3,
            stack |-> Append(st.stack, [cell |-> c, dirs |-> shuffledDirections, i |-> 1])]
      Visit(st) ==
        LET top == st.stack[Len(st.stack)]
            d == top.dirs[top.i]
            n == Step(top.cell, d)
            between == <<top.cell[1] + (d[1] \div 2), top.cell[2] + (d[2] \div 2)>>
            advanced == [st EXCEPT !.stack[Len(st.stack)].i = top.i + 1]
        IN IF top.i > 4 THEN [st EXCEPT !.stack = SubSeq(st.stack, 1, Len(st.stack) - 1)]
           ELSE IF InGrid(h, w, n) /\ n \notin st.visited
           THEN carvePassage([advanced EXCEPT !.grid = @ \cup {between}], n)
           ELSE advanced
      RECURSIVE Iter(_, _)
      Iter(st, k) ==
        IF st.stack = <<>> THEN st
        ELSE IF k = 0 THEN Visit(st) ELSE Iter(Iter(st, k - 1), k - 1)
      carved == Iter(carvePassage([grid |-> {}, visited |-> skipped, rng |-> x2,
                                   stack |-> <<>>], startCell), 9)
  IN openBorders(carved.grid, carved.rng, h, w)

(* placeDeceptiveStartEnd on a grid with two open cells or more.  A ratio  *)
(* actualDist / manhattanDist is kept as the pair of the two numbers.  The *)
(* pair of open cells found last resort is the first two in scan order, so *)
(* the defaults after it are reached only with fewer than two open cells,  *)
(* where the function has already returned [1, 1] and                      *)
(* [height - 2, width - 2] without opening them.                           *)
placeDeceptiveStartEnd(g, x, h, w) ==
  LET openCells == RowMajor(g, h, w)
      n == Len(openCells)
      sampleSize == Min(50, n \div 10)
      samplesToCheck == Min(30, n \div 5)
      corners == SelectSeq(<< <<1, 1>>, <<1, w - 2>>, <<h - 2, 1>>, <<h - 2, w - 2>> >>,
                           LAMBDA c : InGrid(h, w, c) /\ c \in g)
      Pick(st) ==
        LET x1 == NextRandom(st.rng)
        IN [st EXCEPT !.rng = x1, !.endIdx = RandomFloor(x1, n) + 1]
      RECURSIVE IterPick(_, _)
      IterPick(st, k) ==
        IF st.endIdx # 0 /\ st.endIdx # st.startIdx /\ st.endIdx \notin st.checked THEN st
        ELSE IF k = 0 THEN Pick(st) ELSE IterPick(IterPick(st, k - 1), k - 1)
      Compared(p, potentialEnd, manhattanDist, actualDist) ==
        IF /\ 3 * manhattanDist >= Max(w, h)
           /\ actualDist # 0
           /\ actualDist * p.localMaxRatio[2] > p.localMaxRatio[1] * manhattanDist
        THEN [p EXCEPT !.checked = @ \cup {p.endIdx}, !.j = @ + 1,
                       !.localMaxRatio = <<actualDist, manhattanDist>>,
                       !.localBestEnd = potentialEnd]
        ELSE [p EXCEPT !.checked = @ \cup {p.endIdx}, !.j = @ + 1]
      Measured(p, potentialStart, potentialEnd) ==
        Compared(p, potentialEnd, Manhattan(potentialStart, potentialEnd),
                 calculateShortestPath(g, h, w, potentialStart, potentialEnd))
      Picked(p) == Measured(p, openCells[p.startIdx], openCells[p.endIdx])
      Sample(st) == Picked(IterPick([st EXCEPT !.endIdx = 0], 8))
      RECURSIVE IterSample(_, _)
      IterSample(st, k) ==
        IF st.j >= samplesToCheck THEN st
        ELSE IF k = 0 THEN Sample(st) ELSE IterSample(IterSample(st, k - 1), k - 1)
      Attempt(st) ==
        LET x1 == NextRandom(st.rng)
            Sampled(r) ==
              IF /\ r.localMaxRatio[1] * st.maxRatio[2] > st.maxRatio[1] * r.localMaxRatio[2]
                 /\ r.localBestEnd # NoCell
              THEN [rng |-> r.rng, i |-> st.i + 1, maxRatio |-> r.localMaxRatio,
                    bestStart |-> openCells[r.startIdx], bestEnd |-> r.localBestEnd]
              ELSE [st EXCEPT !.rng = r.rng, !.i = @ + 1]
        IN Sampled(IterSample([rng |-> x1, startIdx |-> RandomFloor(x1, n) + 1, endIdx |-> 0,
                               checked |-> {}, j |-> 0, localMaxRatio |-> <<0, 1>>,
                               localBestEnd |-> NoCell], 5))
      RECURSIVE Iter(_, _)
      Iter(st, k) ==
        IF st.i >= sampleSize THEN st
        ELSE IF k = 0 THEN Attempt(st) ELSE Iter(Iter(st, k - 1), k - 1)
      Result(best) ==
        IF best.bestStart # NoCell /\ best.bestEnd # NoCell
        THEN [grid |-> g, rng |-> best.rng, start |-> best.bestStart, end |-> best.bestEnd]
        ELSE IF Len(corners) >= 2
        THEN [grid |-> g, rng |-> best.rng, start |-> corners[1], end |-> corners[Len(corners)]]
        ELSE [grid |-> g, rng |-> best.rng, start |-> openCells[1], end |-> openCells[2]]
  IN IF n < 2
     THEN [grid |-> g, rng |-> x, start |-> <<1, 1>>, end |-> <<h - 2, w - 2>>]
     ELSE Result(Iter([rng |-> x, i |-> 0, maxRatio |-> <<0, 1>>,
                       bestStart |-> NoCell, bestEnd |-> NoCell], 6))

(* addDeceptivePaths: floor(sqrt(max(width, height))) times, from a point  *)
(* between start and end that is open: a walk toward the end, walls on the *)
(* in-grid neighbours of its last cell other than start and end, the first *)
(* neighbour farther from the end reopened, an escape walk from it, and    *)
(* connectToMainMaze at the position the escape walk stopped at, in the    *)
(* grid or one step outside it.                                            *)
addDeceptivePaths(g, x, h, w, s, e) ==
  LET numDeceptivePaths == FloorSqrt(Max(w, h))
      Path(st) ==
        LET x1 == NextRandom(st.rng)
            x2 == NextRandom(x1)
            point == <<RandomBetween(x1, s[1], e[1]), RandomBetween(x2, s[2], e[2])>>
            dirToEndY == Sign(e[1] - point[1])
            dirToEndX == Sign(e[2] - point[2])
            Walk(t) ==
              LET y1 == NextRandom(t.rng)
                  toward == RandomLess(y1, 8, 10)
                  y2 == IF toward THEN y1 ELSE NextRandom(y1)
                  n == IF toward
                       THEN IF Abs(e[1] - t.current[1]) > Abs(e[2] - t.current[2])
                            THEN <<t.current[1] + dirToEndY, t.current[2]>>
                            ELSE <<t.current[1], t.current[2] + dirToEndX>>
                       ELSE Step(t.current, Dirs[RandomFloor(y2, 4) + 1])
              IN IF InGrid(h, w, n)
                 THEN [grid |-> t.grid \cup {n}, rng |-> y2, current |-> n,
                       length |-> t.length + 1, out |-> FALSE]
                 ELSE [t EXCEPT !.rng = y2, !.current = n, !.out = TRUE]
            RECURSIVE IterWalk(_, _)
            IterWalk(t, k) ==
              IF t.out \/ 4 * t.length >= Max(w, h) THEN t
              ELSE IF k = 0 THEN Walk(t) ELSE IterWalk(IterWalk(t, k - 1), k - 1)
            Around(c) == [j \in 1..4 |-> Step(c, Dirs[j])]
            Closed(walked, around) ==
              walked.grid \ {n \in Range(around) : InGrid(h, w, n) /\ n # e /\ n # s}
            Away(c, around) ==
              SelectSeq(around, LAMBDA n : InGrid(h, w, n)
                                           /\ Manhattan(e, n) > Manhattan(e, c))
            Escape(t) ==
              LET y1 == NextRandom(t.rng)
                  far == RandomLess(y1, 7, 10)
                  y2 == IF far THEN y1 ELSE NextRandom(y1)
                  n == IF far
                       THEN IF Abs(e[1] - t.current[1]) < Abs(e[2] - t.current[2])
                            THEN <<t.current[1] - dirToEndY, t.current[2]>>
                            ELSE <<t.current[1], t.current[2] - dirToEndX>>
                       ELSE Step(t.current, Dirs[RandomFloor(y2, 4) + 1])
              IN IF InGrid(h, w, n)
                 THEN [grid |-> t.grid \cup {n}, rng |-> y2, current |-> n,
                       length |-> t.length + 1, out |-> FALSE]
                 ELSE [t EXCEPT !.rng = y2, !.current = n, !.out = TRUE]
            RECURSIVE IterEscape(_, _)
            IterEscape(t, k) ==
              IF t.out \/ 8 * t.length >= 3 * Max(w, h) THEN t
              ELSE IF k = 0 THEN Escape(t) ELSE IterEscape(IterEscape(t, k - 1), k - 1)
            Connected(connected, y) ==
              [grid |-> connected.grid, rng |-> y,
               crashed |-> connected.crashed, i |-> st.i + 1]
            Escaped(escaped) ==
              Connected(connectToMainMaze(escaped.grid, h, w, escaped.current), escaped.rng)
            DeadEnd(closed, away, y) ==
              IF away = <<>>
              THEN [grid |-> closed, rng |-> y, crashed |-> FALSE, i |-> st.i + 1]
              ELSE Escaped(IterEscape([grid |-> closed \cup {away[1]}, rng |-> y,
                                       current |-> away[1], length |-> 0, out |-> FALSE], 6))
            Surrounded(walked, around) ==
              DeadEnd(Closed(walked, around), Away(walked.current, around), walked.rng)
            Walked(walked) ==
              IF ~InGrid(h, w, walked.current)
              THEN [grid |-> walked.grid, rng |-> walked.rng, crashed |-> FALSE,
                    i |-> st.i + 1]
              ELSE Surrounded(walked, Around(walked.current))
        IN IF ~InGrid(h, w, point) \/ point \notin st.grid
           THEN [st EXCEPT !.rng = x2, !.i = @ + 1]
           ELSE Walked(IterWalk([grid |-> st.grid, rng |-> x2, current |-> point,
                                 length |-> 0, out |-> FALSE], 6))
      RECURSIVE Iter(_, _)
      Iter(st, k) ==
        IF st.crashed \/ st.i >= numDeceptivePaths THEN st
        ELSE IF k = 0 THEN Path(st) ELSE Iter(Iter(st, k - 1), k - 1)
      Result(r) == [grid |-> r.grid, rng |-> r.rng, crashed |-> r.crashed]
  IN Result(Iter([grid |-> g, rng |-> x, crashed |-> FALSE, i |-> 0], 4))

(* createSubBranch(grid, width, height, y, x, maxLength): a straight walk  *)
(* from c that, with probability 0.3 after each cell, takes one step in a  *)
(* random direction other than straight back.                              *)
createSubBranch(g, x, h, w, c, maxLength) ==
  LET x1 == NextRandom(x)
      d == Dirs[RandomFloor(x1, 4) + 1]
      Grow(st) ==
        LET n == Step(st.current, d)
            y1 == NextRandom(st.rng)
            y2 == NextRandom(y1)
            newDir == Dirs[RandomFloor(y2, 4) + 1]
            m == Step(n, newDir)
        IN IF ~InGrid(h, w, n)
           THEN [st EXCEPT !.current = n, !.out = TRUE]
           ELSE IF ~RandomLess(y1, 3, 10)
           THEN [grid |-> st.grid \cup {n}, rng |-> y1, current |-> n,
                 length |-> st.length + 1, out |-> FALSE]
           ELSE IF newDir[1] = -d[1] /\ newDir[2] = -d[2]
           THEN [grid |-> st.grid \cup {n}, rng |-> y2, current |-> n,
                 length |-> st.length + 1, out |-> FALSE]
           ELSE IF InGrid(h, w, m)
           THEN [grid |-> st.grid \cup {n, m}, rng |-> y2, current |-> m,
                 length |-> st.length + 2, out |-> FALSE]
           ELSE [grid |-> st.grid \cup {n}, rng |-> y2, current |-> m,
                 length |-> st.length + 1, out |-> FALSE]
      RECURSIVE Iter(_, _)
      Iter(st, k) ==
        IF st.out \/ st.length >= maxLength THEN st
        ELSE IF k = 0 THEN Grow(st) ELSE Iter(Iter(st, k - 1), k - 1)
      Result(r) == [grid |-> r.grid, rng |-> r.rng]
  IN Result(Iter([grid |-> g, rng |-> x1, current |-> c, length |-> 0, out |-> FALSE], 6))

(* addHeuristicTraps: max(5, floor(sqrt(max(width, height)) * 1.5)) times, *)
(* at an open cell away from start and end: an entry corridor toward the   *)
(* end, 5 to 9 branches from the position the corridor stopped at (in the  *)
(* grid or one step outside it) and, with probability 0.1,                 *)
(* connectToMainMaze at that position.                                     *)
addHeuristicTraps(g, x, h, w, s, e) ==
  LET numTraps == Max(5, FloorSqrt((9 * Max(w, h)) \div 4))
      dirToEndY == Sign(e[1] - s[1])
      dirToEndX == Sign(e[2] - s[2])
      Trap(st) ==
        LET x1 == NextRandom(st.rng)
            onPath == RandomLess(x1, 7, 10)
            x2 == NextRandom(x1)
            x3 == IF onPath THEN x2 ELSE NextRandom(x2)
            trap == IF onPath
                    THEN <<RandomBetween(x2, s[1], e[1]), RandomBetween(x2, s[2], e[2])>>
                    ELSE <<RandomFloor(x2, h), RandomFloor(x3, w)>>
            x4 == NextRandom(x3)
            trapSize == (Min(w, h) \div 10) + RandomFloorOver(x4, Min(w, h), 10)
            x5 == NextRandom(x4)
            maxBranches == 5 + RandomFloor(x5, 5)
            Entry(t) ==
              LET y1 == NextRandom(t.rng)
                  toward == RandomLess(y1, 8, 10)
                  y2 == IF toward THEN y1 ELSE NextRandom(y1)
                  n == IF toward
                       THEN IF Abs(e[1] - t.current[1]) > Abs(e[2] - t.current[2])
                            THEN <<t.current[1] + dirToEndY, t.current[2]>>
                            ELSE <<t.current[1], t.current[2] + dirToEndX>>
                       ELSE Step(t.current, Dirs[RandomFloor(y2, 4) + 1])
              IN IF InGrid(h, w, n)
                 THEN [grid |-> t.grid \cup {n}, rng |-> y2, current |-> n,
                       length |-> t.length + 1, out |-> FALSE]
                 ELSE [t EXCEPT !.rng = y2, !.current = n, !.out = TRUE]
            RECURSIVE IterEntry(_, _)
            IterEntry(t, k) ==
              IF t.out \/ 2 * t.length >= trapSize THEN t
              ELSE IF k = 0 THEN Entry(t) ELSE IterEntry(IterEntry(t, k - 1), k - 1)
            Branch(t, trapCenter) ==
              LET y1 == NextRandom(t.rng)
                  towardGoal == RandomLess(y1, 7, 10)
                  y2 == NextRandom(y1)
                  y3 == NextRandom(y2)
                  y4 == NextRandom(y3)
                  y5 == NextRandom(y4)
                  branchDirY == dirToEndY + (IF RandomLess(y2, 5, 10) THEN -1 ELSE 1)
                                             * (IF RandomLess(y3, 5, 10) THEN 1 ELSE 0)
                  branchDirX == dirToEndX + (IF RandomLess(y4, 5, 10) THEN -1 ELSE 1)
                                             * (IF RandomLess(y5, 5, 10) THEN 1 ELSE 0)
                  dir == IF towardGoal
                         THEN IF Abs(branchDirY) > Abs(branchDirX)
                              THEN <<Sign(branchDirY), 0>> ELSE <<0, Sign(branchDirX)>>
                         ELSE Dirs[RandomFloor(y2, 4) + 1]
                  y6 == NextRandom(IF towardGoal THEN y5 ELSE y2)
                  maxBranchLength == trapSize + RandomFloor(y6, trapSize)
                  Grow(u) ==
                    LET z1 == NextRandom(u.rng)
                        straight == RandomLess(z1, 8, 10)
                        z2 == IF straight THEN z1 ELSE NextRandom(z1)
                        turn == IF RandomLess(z2, 5, 10) THEN -1 ELSE 1
                        n == IF straight THEN Step(u.current, dir)
                             ELSE IF dir[1] # 0 THEN <<u.current[1], u.current[2] + turn>>
                             ELSE <<u.current[1] + turn, u.current[2]>>
                        z3 == NextRandom(z2)
                        Branched(sub) ==
                          [grid |-> sub.grid, rng |-> sub.rng, current |-> n,
                           length |-> u.length + 1, out |-> FALSE]
                    IN IF ~InGrid(h, w, n)
                       THEN [u EXCEPT !.rng = z2, !.current = n, !.out = TRUE]
                       ELSE IF u.length + 1 <= 3
                       THEN [grid |-> u.grid \cup {n}, rng |-> z2, current |-> n,
                             length |-> u.length + 1, out |-> FALSE]
                       ELSE IF RandomLess(z3, 2, 10)
                       THEN Branched(createSubBranch(u.grid \cup {n}, z3, h, w, n,
                                                     trapSize \div 2))
                       ELSE [grid |-> u.grid \cup {n}, rng |-> z3, current |-> n,
                             length |-> u.length + 1, out |-> FALSE]
                  RECURSIVE IterGrow(_, _)
                  IterGrow(u, k) ==
                    IF u.out \/ u.length >= maxBranchLength THEN u
                    ELSE IF k = 0 THEN Grow(u) ELSE IterGrow(IterGrow(u, k - 1), k - 1)
                  Grown(u) == [grid |-> u.grid, rng |-> u.rng, branch |-> t.branch + 1,
                               center |-> trapCenter]
              IN Grown(IterGrow([grid |-> t.grid, rng |-> y6, current |-> trapCenter,
                                 length |-> 0, out |-> FALSE], 6))
            RECURSIVE IterBranch(_, _)
            IterBranch(t, k) ==
              IF t.branch >= maxBranches THEN t
              ELSE IF k = 0 THEN Branch(t, t.center)
              ELSE IterBranch(IterBranch(t, k - 1), k - 1)
            Connected(r, x6) ==
              [grid |-> r.grid, rng |-> x6, crashed |-> r.crashed, i |-> st.i + 1]
            Connect(t, x6) ==
              IF RandomLess(x6, 1, 10)
              THEN Connected(connectToMainMaze(t.grid, h, w, t.center), x6)
              ELSE [grid |-> t.grid, rng |-> x6, crashed |-> FALSE, i |-> st.i + 1]
            Branched(t) == Connect(t, NextRandom(t.rng))
            Branches(t) ==
              Branched(IterBranch([grid |-> t.grid, rng |-> t.rng, branch |-> 0,
                                   center |-> t.current], 4))
        IN IF \/ ~InGrid(h, w, trap) \/ trap \notin st.grid
              \/ 10 * Manhattan(trap, s) < w \/ 10 * Manhattan(trap, e) < w
           THEN [st EXCEPT !.rng = x3, !.i = @ + 1]
           ELSE Branches(IterEntry([grid |-> st.grid, rng |-> x5, current |-> trap,
                                    length |-> 0, out |-> FALSE], 6))
      RECURSIVE Iter(_, _)
      Iter(st, k) ==
        IF st.crashed \/ st.i >= numTraps THEN st
        ELSE IF k = 0 THEN Trap(st) ELSE Iter(Iter(st, k - 1), k - 1)
      Result(r) == [grid |-> r.grid, rng |-> r.rng, crashed |-> r.crashed]
  IN Result(Iter([grid |-> g, rng |-> x, crashed |-> FALSE, i |-> 0], 5))

(* hasFewerThanTwoWalls(grid, height, width, y, x): a neighbour outside    *)
(* the grid counts as a wall.                                              *)
hasFewerThanTwoWalls(g, h, w, c) ==
  Cardinality({j \in 1..4 : ~InGrid(h, w, Step(c, Dirs[j])) \/ Step(c, Dirs[j]) \notin g}) < 2

(* areDirectlyConnected(grid, y1, x1, y2, x2): adjacent, or in one row or  *)
(* column with only open cells between them, none of which has an open     *)
(* cell beside it.                                                         *)
areDirectlyConnected(g, h, w, a, b) ==
  IF Manhattan(a, b) = 1 THEN TRUE
  ELSE IF a[1] = b[1]
  THEN \A cx \in (Min(a[2], b[2]) + 1)..(Max(a[2], b[2]) - 1) :
         /\ <<a[1], cx>> \in g
         /\ ~(a[1] > 0 /\ <<a[1] - 1, cx>> \in g)
         /\ ~(a[1] < h - 1 /\ <<a[1] + 1, cx>> \in g)
  ELSE IF a[2] = b[2]
  THEN \A cy \in (Min(a[1], b[1]) + 1)..(Max(a[1], b[1]) - 1) :
         /\ <<cy, a[2]>> \in g
         /\ ~(a[2] > 0 /\ <<cy, a[2] - 1>> \in g)
         /\ ~(a[2] < RowZeroLength(g, w) - 1 /\ <<cy, a[2] + 1>> \in g)
  ELSE FALSE

(* addStrategicLoops: max(10, floor(min(width, height) / 5)) times, a      *)
(* random open cell with two walls or more around it, the first cell the   *)
(* BFS over all cells of the grid dequeues at distance loopRadius that is  *)
(* open and not directly connected to it, and a winding path between the   *)
(* two, opened.  An entry of queue is <<cell, distance>>.                  *)
addStrategicLoops(g, x, h, w) ==
  LET numLoops == Max(10, Min(w, h) \div 5)
      loopRadius == Max(3, Min(w, h) \div 15)
      Loop(st) ==
        LET Pick(t) ==
              LET x1 == NextRandom(t.rng)
                  x2 == NextRandom(x1)
              IN [cell |-> <<RandomFloor(x1, h), RandomFloor(x2, w)>>, rng |-> x2,
                  attempts |-> t.attempts + 1]
            RECURSIVE IterPick(_, _)
            IterPick(t, k) ==
              IF /\ t.attempts > 0
                 /\ ~(/\ t.cell \notin st.grid \/ hasFewerThanTwoWalls(st.grid, h, w, t.cell)
                      /\ t.attempts < 100)
              THEN t
              ELSE IF k = 0 THEN Pick(t) ELSE IterPick(IterPick(t, k - 1), k - 1)
            pick == IterPick([cell |-> NoCell, rng |-> st.rng, attempts |-> 0], 7)
            Search(t) ==
              LET cur == t.queue[t.i]
                  new == SelectSeq([j \in 1..4 |-> Step(cur[1], Dirs[j])],
                                   LAMBDA n : InGrid(h, w, n) /\ n \notin t.visited)
              IN IF cur[2] >= loopRadius
                 THEN IF /\ cur[1] \in st.grid
                         /\ ~areDirectlyConnected(st.grid, h, w, pick.cell, cur[1])
                      THEN [t EXCEPT !.loopEnd = cur[1]]
                      ELSE [t EXCEPT !.i = @ + 1]
                 ELSE [queue |-> t.queue \o [j \in 1..Len(new) |-> <<new[j], cur[2] + 1>>],
                       i |-> t.i + 1, visited |-> t.visited \cup Range(new), loopEnd |-> NoCell]
            RECURSIVE IterSearch(_, _)
            IterSearch(t, k) ==
              IF t.loopEnd # NoCell \/ t.i > Len(t.queue) THEN t
              ELSE IF k = 0 THEN Search(t) ELSE IterSearch(IterSearch(t, k - 1), k - 1)
            loopEnd == IterSearch([queue |-> << <<pick.cell, 0>> >>, i |-> 1, visited |-> {},
                                   loopEnd |-> NoCell], 9).loopEnd
            path == createWindingPath(h, w, pick.rng, pick.cell, loopEnd)
        IN IF pick.attempts >= 100 \/ loopEnd = NoCell
           THEN [grid |-> st.grid, rng |-> pick.rng, i |-> st.i + 1]
           ELSE [grid |-> st.grid \cup path.cells, rng |-> path.rng, i |-> st.i + 1]
      RECURSIVE Iter(_, _)
      Iter(st, k) ==
        IF st.i >= numLoops THEN st
        ELSE IF k = 0 THEN Loop(st) ELSE Iter(Iter(st, k - 1), k - 1)
      Result(r) == [grid |-> r.grid, rng |-> r.rng]
  IN Result(Iter([grid |-> g, rng |-> x, i |-> 0], 6))

(* addNarrowWindingPassages: in each of three areas (between start and     *)
(* end, around start, around end), max(3, floor(min(width, height) / 10))  *)
(* times: from a cell of the area that is open, a passage that turns with  *)
(* probability 0.3 and, with probability 0.7, gets a wall with probability *)
(* 0.8 on each side, on in-grid cells other than start and end; then       *)
(* connectToMainMaze at the position the passage stopped at, in the grid   *)
(* or one step outside it.                                                 *)
addNarrowWindingPassages(g, x, h, w, s, e) ==
  LET numPassages == Max(3, Min(w, h) \div 10)
      areas ==
        << [minY |-> Min(s[1], e[1]) + (Abs(e[1] - s[1]) \div 4),
            maxY |-> Max(s[1], e[1]) - (Abs(e[1] - s[1]) \div 4),
            minX |-> Min(s[2], e[2]) + (Abs(e[2] - s[2]) \div 4),
            maxX |-> Max(s[2], e[2]) - (Abs(e[2] - s[2]) \div 4)],
           [minY |-> Max(0, s[1] - (h \div 10)), maxY |-> Min(h - 1, s[1] + (h \div 10)),
            minX |-> Max(0, s[2] - (w \div 10)), maxX |-> Min(w - 1, s[2] + (w \div 10))],
           [minY |-> Max(0, e[1] - (h \div 10)), maxY |-> Min(h - 1, e[1] + (h \div 10)),
            minX |-> Max(0, e[2] - (w \div 10)), maxX |-> Min(w - 1, e[2] + (w \div 10))] >>
      Passage(st) ==
        LET area == areas[st.a]
            x1 == NextRandom(st.rng)
            x2 == NextRandom(x1)
            startCell == <<area.minY + RandomFloor(x1, area.maxY - area.minY + 1),
                           area.minX + RandomFloor(x2, area.maxX - area.minX + 1)>>
            x3 == NextRandom(x2)
            passageLength == (Min(w, h) \div 5) + RandomFloorOver(x3, Min(w, h), 5)
            x4 == NextRandom(x3)
            Walk(t) ==
              LET d == Dirs[t.dirIdx]
                  n == Step(t.current, d)
                  y1 == NextRandom(t.rng)
                  turns == RandomLess(y1, 3, 10)
                  y2 == IF turns THEN NextRandom(y1) ELSE y1
                  dirIdx == IF ~turns THEN t.dirIdx
                            ELSE IF d[1] # 0 THEN 3 + RandomFloor(y2, 2)
                            ELSE 1 + RandomFloor(y2, 2)
                  y3 == NextRandom(y2)
                  y4 == NextRandom(y3)
                  y5 == NextRandom(y4)
                  perpDirs == IF d[1] # 0 THEN << <<0, -1>>, <<0, 1>> >>
                              ELSE << <<-1, 0>>, <<1, 0>> >>
                  sideWalls == {c \in {Step(n, perpDirs[j]) :
                                     j \in {k \in 1..2 : RandomLess(IF k = 1 THEN y4 ELSE y5, 8, 10)}} :
                              InGrid(h, w, c) /\ c # s /\ c # e}
              IN IF ~InGrid(h, w, n)
                 THEN [t EXCEPT !.current = n, !.out = TRUE]
                 ELSE IF RandomLess(y3, 7, 10)
                 THEN [grid |-> (t.grid \cup {n}) \ sideWalls, rng |-> y5, current |-> n,
                       dirIdx |-> dirIdx, length |-> t.length + 1, out |-> FALSE]
                 ELSE [grid |-> t.grid \cup {n}, rng |-> y3, current |-> n,
                       dirIdx |-> dirIdx, length |-> t.length + 1, out |-> FALSE]
            RECURSIVE IterWalk(_, _)
            IterWalk(t, k) ==
              IF t.out \/ t.length >= passageLength THEN t
              ELSE IF k = 0 THEN Walk(t) ELSE IterWalk(IterWalk(t, k - 1), k - 1)
            next == IF st.i + 1 >= numPassages THEN [a |-> st.a + 1, i |-> 0]
                    ELSE [a |-> st.a, i |-> st.i + 1]
            Connected(connected, y) ==
              [grid |-> connected.grid, rng |-> y, crashed |-> connected.crashed,
               a |-> next.a, i |-> next.i]
            Walked(walked) ==
              Connected(connectToMainMaze(walked.grid, h, w, walked.current), walked.rng)
        IN IF startCell \notin st.grid
           THEN [grid |-> st.grid, rng |-> x2, crashed |-> FALSE, a |-> next.a, i |-> next.i]
           ELSE Walked(IterWalk([grid |-> st.grid, rng |-> x4, current |-> startCell,
                                 dirIdx |-> RandomFloor(x4, 4) + 1, length |-> 0,
                                 out |-> FALSE], 6))
      RECURSIVE Iter(_, _)
      Iter(st, k) ==
        IF st.crashed \/ st.a > Len(areas) THEN st
        ELSE IF k = 0 THEN Passage(st) ELSE Iter(Iter(st, k - 1), k - 1)
      Result(r) == [grid |-> r.grid, rng |-> r.rng, crashed |-> r.crashed]
  IN Result(Iter([grid |-> g, rng |-> x, crashed |-> FALSE, a |-> 1, i |-> 0], 6))

(* addMemoryIntensiveRegions: max(2, floor(min(width, height) / 20))       *)
(* times, around a random cell that is open: every second cell of every    *)
(* second row within regionRadius opened, each of its in-grid neighbours   *)
(* (up, right, down, left) opened with probability 0.7; then, for each     *)
(* open cell strictly inside the region, with probability 0.3 the three    *)
(* cells right of and below it opened; then connectToMainMaze at the       *)
(* centre.                                                                 *)
addMemoryIntensiveRegions(g, x, h, w) ==
  LET numRegions == Max(2, Min(w, h) \div 20)
      regionRadius == Max(5, Min(w, h) \div 15)
      Region(st) ==
        LET x1 == NextRandom(st.rng)
            x2 == NextRandom(x1)
            centerY == RandomFloor(x1, h)
            centerX == RandomFloor(x2, w)
            lattice == SelectSeq(Rect(centerY - regionRadius, centerY + regionRadius,
                                      centerX - regionRadius, centerX + regionRadius),
                                 LAMBDA c : /\ InGrid(h, w, c)
                                            /\ (c[1] - centerY) % 2 = 0
                                            /\ (c[2] - centerX) % 2 = 0)
            Connect(t) ==
              LET c == lattice[t.i]
                  around == SelectSeq(<< <<c[1] - 1, c[2]>>, <<c[1], c[2] + 1>>,
                                         <<c[1] + 1, c[2]>>, <<c[1], c[2] - 1>> >>,
                                      LAMBDA n : InGrid(h, w, n))
                  opened == RandomOpen(t.grid \cup {c}, t.rng, around, 7, 10)
              IN [grid |-> opened.grid, rng |-> opened.rng, i |-> t.i + 1]
            RECURSIVE IterConnect(_, _)
            IterConnect(t, k) ==
              IF t.i > Len(lattice) THEN t
              ELSE IF k = 0 THEN Connect(t) ELSE IterConnect(IterConnect(t, k - 1), k - 1)
            inner == SelectSeq(Rect(centerY - regionRadius + 1, centerY + regionRadius - 1,
                                    centerX - regionRadius + 1, centerX + regionRadius - 1),
                               LAMBDA c : InGrid(h, w, c))
            Diagonal(t) ==
              LET c == inner[t.i]
                  y1 == NextRandom(t.rng)
              IN IF c \notin t.grid THEN [t EXCEPT !.i = @ + 1]
                 ELSE IF RandomLess(y1, 3, 10) /\ c[1] < h - 1 /\ c[2] < w - 1
                 THEN [grid |-> t.grid \cup {<<c[1], c[2] + 1>>, <<c[1] + 1, c[2]>>,
                                             <<c[1] + 1, c[2] + 1>>},
                       rng |-> y1, i |-> t.i + 1]
                 ELSE [grid |-> t.grid, rng |-> y1, i |-> t.i + 1]
            RECURSIVE IterDiagonal(_, _)
            IterDiagonal(t, k) ==
              IF t.i > Len(inner) THEN t
              ELSE IF k = 0 THEN Diagonal(t) ELSE IterDiagonal(IterDiagonal(t, k - 1), k - 1)
            Connected(connected, y) ==
              [grid |-> connected.grid, rng |-> y, crashed |-> connected.crashed,
               i |-> st.i + 1]
            Dense(dense) ==
              Connected(connectToMainMaze(dense.grid, h, w, <<centerY, centerX>>), dense.rng)
            Network(network) ==
              Dense(IterDiagonal([grid |-> network.grid, rng |-> network.rng, i |-> 1], 8))
        IN IF <<centerY, centerX>> \notin st.grid
           THEN [grid |-> st.grid, rng |-> x2, crashed |-> FALSE, i |-> st.i + 1]
           ELSE Network(IterConnect([grid |-> st.grid, rng |-> x2, i |-> 1], 7))
      RECURSIVE Iter(_, _)
      Iter(st, k) ==
        IF st.crashed \/ st.i >= numRegions THEN st
        ELSE IF k = 0 THEN Region(st) ELSE Iter(Iter(st, k - 1), k - 1)
      Result(r) == [grid |-> r.grid, rng |-> r.rng, crashed |-> r.crashed]
  IN Result(Iter([grid |-> g, rng |-> x, crashed |-> FALSE, i |-> 0], 4))

(* The same as ensureValidPath, with the check and without the repair.     *)
ensureValidPathCheckOnly(g, x, h, w, s, e) ==
  LET pathLength == calculateShortestPath(g, h, w, s, e)
      path == createWindingPath(h, w, x, s, e)
  IN IF pathLength = 0
     THEN [grid |-> g, rng |-> path.rng, length |-> path.length]
     ELSE [grid |-> g, rng |-> x, length |-> pathLength]

(* ensureValidPath: when calculateShortestPath reports no path, the cells  *)
(* of a winding path from start are opened; the path may stop short of     *)
(* end.  length is the number the function returns.                        *)
ensureValidPath(g, x, h, w, s, e) ==
  LET pathLength == calculateShortestPath(g, h, w, s, e)
      path == createWindingPath(h, w, x, s, e)
  IN IF pathLength = 0
     THEN [grid |-> g \cup path.cells, rng |-> path.rng, length |-> path.length]
     ELSE [grid |-> g, rng |-> x, length |-> pathLength]

(* fixConnectivity: the cells of a direct walk from start to end are       *)
(* opened, each after the move onto it.                                    *)
fixConnectivity(g, s, e) == g \cup Range(CarvePath(s, e))

(* The size given on the command line of the anti-bot generator.           *)
AntiBotSize == 10

(* Number of seeds of the random stream the anti-bot generator is run      *)
(* with: 0 .. AntiBotSeeds - 1.  One more run takes its draws from         *)
(* RecordedDraws.                                                          *)
AntiBotSeeds == 16

InitAntiBot ==
  /\ pc = "createPerfectMaze"
  /\ height = AntiBotSize
  /\ width = AntiBotSize
  /\ rng \in {<<seed>> : seed \in 0..(AntiBotSeeds - 1)} \cup {<<0>> \o RecordedDraws}
  /\ grid = {}
  /\ start = NoCell
  /\ end = NoCell
  /\ maze = NoMaze
  /\ gridIn = {} /\ gridMid = {} /\ conn1 = 0 /\ conn2 = 0
  /\ attempts = 0 /\ branch = "none" /\ file = NoMaze
  /\ connectivityInfo = 0 /\ accessibilityInfo = 0 /\ finalCheck = 0
  /\ artifacts = {}
  /\ walls = <<>>
  /\ ToolsUnused

(* generateAntiBotMaze(width, height), one call of its body at a time; pc  *)
(* names the next call, and is "crashed" after a call that threw.  conn1   *)
(* is the length ensureValidPath returned, conn2 the path length           *)
(* verifyConnectivity found (0: not connected, fixConnectivity ran).       *)
generateAntiBotMaze ==
  LET Carved(r) == grid' = r.grid /\ rng' = r.rng
      Placed(r) == grid' = r.grid /\ rng' = r.rng /\ start' = r.start /\ end' = r.end
      Ensured(r) == grid' = r.grid /\ rng' = r.rng /\ conn1' = r.length
      Threw(r, next) ==
        grid' = r.grid /\ rng' = r.rng /\ pc' = IF r.crashed THEN "crashed" ELSE next
      Verified(length) ==
        /\ conn2' = length
        /\ grid' = IF length > 0 THEN grid ELSE fixConnectivity(grid, start, end)
  IN /\ \/ /\ pc = "createPerfectMaze"
             /\ Carved(createPerfectMaze(height, width, rng))
             /\ pc' = "placeDeceptiveStartEnd"
             /\ UNCHANGED <<start, end, maze, conn1, conn2>>
          \/ /\ pc = "placeDeceptiveStartEnd"
             /\ Placed(placeDeceptiveStartEnd(grid, rng, height, width))
             /\ pc' = "addDeceptivePaths"
             /\ UNCHANGED <<maze, conn1, conn2>>
          \/ /\ pc = "addDeceptivePaths"
             /\ Threw(addDeceptivePaths(grid, rng, height, width, start, end), "addHeuristicTraps")
             /\ UNCHANGED <<start, end, maze, conn1, conn2>>
          \/ /\ pc = "addHeuristicTraps"
             /\ Threw(addHeuristicTraps(grid, rng, height, width, start, end), "addStrategicLoops")
             /\ UNCHANGED <<start, end, maze, conn1, conn2>>
          \/ /\ pc = "addStrategicLoops"
             /\ Carved(addStrategicLoops(grid, rng, height, width))
             /\ pc' = "addNarrowWindingPassages"
             /\ UNCHANGED <<start, end, maze, conn1, conn2>>
          \/ /\ pc = "addNarrowWindingPassages"
             /\ Threw(addNarrowWindingPassages(grid, rng, height, width, start, end), "ensureValidPath")
             /\ UNCHANGED <<start, end, maze, conn1, conn2>>
          \/ /\ pc = "ensureValidPath"
             /\ Ensured(ensureValidPath(grid, rng, height, width, start, end))
             /\ pc' = "addMemoryIntensiveRegions"
             /\ UNCHANGED <<start, end, maze, conn2>>
          \/ /\ pc = "addMemoryIntensiveRegions"
             /\ Threw(addMemoryIntensiveRegions(grid, rng, height, width), "verifyConnectivity")
             /\ UNCHANGED <<start, end, maze, conn1, conn2>>
          \/ /\ pc = "verifyConnectivity"
             /\ Verified(calculateShortestPath(grid, height, width, start, end))
             /\ pc' = "walls_list"
             /\ UNCHANGED <<start, end, maze, conn1, rng>>
          \/ /\ pc = "walls_list"
             /\ maze' = [width |-> width, height |-> height,
                         start |-> OneIndexed(start), end |-> OneIndexed(end),
                         walls |-> WallsList(grid, height, width)]
             /\ pc' = "returned"
             /\ UNCHANGED <<grid, start, end, conn1, conn2, rng>>
       /\ UNCHANGED <<height, width, gridIn, gridMid, artifacts, walls, toolVars,
                      attempts, branch, connectivityInfo, accessibilityInfo, finalCheck, file>>

NextAntiBot == generateAntiBotMaze

SpecAntiBot == InitAntiBot /\ [][NextAntiBot]_vars

C29_EveryAccessInBounds ==
  /\ pc # "crashed"
  /\ \A c \in grid : InGrid(height, width, c)

(* C7: the maze generateAntiBotMaze returns has start and end outside      *)
(* walls and a path of orthogonal moves from start to end through cells of *)
(* the maze that are not in walls.                                         *)
C7_ReturnedMazeHasPath == pc = "returned" => HasPath(maze)

----------------------------------------------------------------------------
(* The competition tools: bot.js and verify.js load a maze artifact into a *)
(* grid of characters, generate_solution.js solves an artifact and writes  *)
(* a solution file, validate_solution.js judges the path of a solution     *)
(* file.  The tools use the 1-indexed <<row, col>> cells of the artifact;  *)
(* the character grid is 0-indexed.  A JavaScript string is the sequence   *)
(* of its characters.                                                      *)

(* parseMazeFromJson(filePath) of bot.js, on the parsed artifact m: the    *)
(* walls inside the grid become '#', then start becomes 'S' and end 'E'.   *)
(* exited is process.exit(1) after the error message.                      *)
parseMazeFromJson(m) ==
  LET empty == [c \in Cells(m.height, m.width) |-> " "]
      walled == [c \in Cells(m.height, m.width) |->
                   IF OneIndexed(c) \in m.walls THEN "#" ELSE empty[c]]
      startCell == ZeroIndexed(m.start)
      endCell == ZeroIndexed(m.end)
  IN IF m.width = 0 \/ m.height = 0
     THEN [exited |-> TRUE, maze |-> <<>>]
     ELSE IF ~InGrid(m.height, m.width, startCell)
     THEN [exited |-> TRUE, maze |-> <<>>]
     ELSE IF ~InGrid(m.height, m.width, endCell)
     THEN [exited |-> TRUE, maze |-> <<>>]
     ELSE [exited |-> FALSE,
           maze |-> [[walled EXCEPT ![startCell] = "S"] EXCEPT ![endCell] = "E"]]

(* manhattanDistance(point1, point2) of generate_solution.js.              *)
manhattanDistance(point1, point2) ==
  Abs(point1[1] - point2[1]) + Abs(point1[2] - point2[2])

(* getNeighbors(position, width, height, wallsSet): up, down, left, right, *)
(* kept when inside [1,height]x[1,width] and not in walls.                 *)
getNeighbors(position, w, h, wallsSet) ==
  SelectSeq(<< <<position[1] - 1, position[2]>>, <<position[1] + 1, position[2]>>,
               <<position[1], position[2] - 1>>, <<position[1], position[2] + 1>> >>,
            LAMBDA n : /\ ~(n[1] < 1 \/ n[1] > h \/ n[2] < 1 \/ n[2] > w)
                       /\ n \notin wallsSet)

(* reconstructPath(cameFrom, current, start): follows cameFrom back from   *)
(* current until a key without an entry.                                   *)
RECURSIVE reconstructPath(_, _)
reconstructPath(cameFrom, current) ==
  IF current \in DOMAIN cameFrom
  THEN Append(reconstructPath(cameFrom, cameFrom[current]), current)
  ELSE <<current>>

(* openSet.sort((a, b) => a.f - b.f): a stable sort by f.                  *)
RECURSIVE SortByF(_)
SortByF(openSet) ==
  IF openSet = <<>> THEN <<>>
  ELSE LET item == openSet[Len(openSet)]
           Insert(sorted) ==
             SelectSeq(sorted, LAMBDA o : o.f <= item.f) \o <<item>>
               \o SelectSeq(sorted, LAMBDA o : o.f > item.f)
       IN Insert(SortByF(SubSeq(openSet, 1, Len(openSet) - 1)))

(* solveMaze(maze): the A* search; the result is the path of <<row, col>>  *)
(* cells, or the empty path when the open set runs empty.                  *)
solveMaze(m) ==
  LET Visit(st, current, neighbor) ==
        LET tentativeGScore == st.gScore[current] + 1
            f == tentativeGScore + manhattanDistance(neighbor, m.end)
        IN IF neighbor \in st.closedSet THEN st
           ELSE IF neighbor \notin DOMAIN st.gScore \/ st.gScore[neighbor] = 0
                   \/ tentativeGScore < st.gScore[neighbor]
           THEN [st EXCEPT
                   !.cameFrom = [k \in DOMAIN @ \cup {neighbor} |->
                                   IF k = neighbor THEN current ELSE @[k]],
                   !.gScore = [k \in DOMAIN @ \cup {neighbor} |->
                                 IF k = neighbor THEN tentativeGScore ELSE @[k]],
                   !.openSet =
                     IF \E i \in 1..Len(@) : @[i].position = neighbor
                     THEN [i \in 1..Len(@) |->
                             IF @[i].position = neighbor
                             THEN [position |-> neighbor, f |-> f] ELSE @[i]]
                     ELSE Append(@, [position |-> neighbor, f |-> f])]
           ELSE st
      RECURSIVE VisitAll(_, _, _)
      VisitAll(st, current, neighbors) ==
        IF neighbors = <<>> THEN st
        ELSE VisitAll(Visit(st, current, Head(neighbors)), current, Tail(neighbors))
      Expand(st, sorted) ==
        IF Head(sorted).position = m.end
        THEN [st EXCEPT !.found = TRUE,
                        !.path = reconstructPath(st.cameFrom, Head(sorted).position)]
        ELSE VisitAll([st EXCEPT !.openSet = Tail(sorted),
                                 !.closedSet = @ \cup {Head(sorted).position}],
                      Head(sorted).position,
                      getNeighbors(Head(sorted).position, m.width, m.height, m.walls))
      RECURSIVE Search(_)
      Search(st) ==
        IF st.found \/ st.openSet = <<>> THEN st
        ELSE Search(Expand(st, SortByF(st.openSet)))
      Result(st) == st.path
  IN Result(Search([openSet |-> <<[position |-> m.start,
                                   f |-> manhattanDistance(m.start, m.end)]>>,
                    closedSet |-> {},
                    gScore |-> [k \in {m.start} |-> 0],
                    cameFrom |-> [k \in {} |-> NoCell],
                    found |-> FALSE, path |-> <<>>]))

(* String(n) of a template literal: the decimal digits of n as characters. *)
RECURSIVE NumberToString(_)
NumberToString(n) ==
  LET digit == <<"0", "1", "2", "3", "4", "5", "6", "7", "8", "9">>
  IN IF n < 0 THEN <<"-">> \o NumberToString(-n)
     ELSE IF n < 10 THEN <<digit[n + 1]>>
     ELSE Append(NumberToString(n \div 10), digit[(n % 10) + 1])

(* convertToR1C1Notation(path): each cell becomes the string "(rXcY)".     *)
convertToR1C1Notation(p) ==
  [i \in 1..Len(p) |->
     <<"(", "r">> \o NumberToString(p[i][1]) \o <<"c">> \o NumberToString(p[i][2])
       \o <<")">>]

(* arraysEqual(arr1, arr2) of validate_solution.js: equal lengths, then    *)
(* elements compared with !==.                                             *)
arraysEqual(arr1, arr2) ==
  IF Len(arr1) # Len(arr2) THEN FALSE
  ELSE \A i \in 1..Len(arr1) : arr1[i] = arr2[i]

(* validate(maze, path) of validate_solution.js.  path[0] of an empty path *)
(* is undefined and arraysEqual throws on its length.                      *)
validate(m, p) ==
  LET Bad(i) ==
        \/ p[i + 1] \in m.walls
        \/ Abs(p[i][1] - p[i + 1][1]) + Abs(p[i][2] - p[i + 1][2]) # 1
        \/ p[i + 1][1] < 1 \/ p[i + 1][1] > m.height
        \/ p[i + 1][2] < 1 \/ p[i + 1][2] > m.width
  IN IF p = <<>>
     THEN [valid |-> FALSE, error |-> "TypeError"]
     ELSE IF ~arraysEqual(p[1], m.start)
     THEN [valid |-> FALSE, error |-> "Path does not start at the maze start point"]
     ELSE IF ~arraysEqual(p[Len(p)], m.end)
     THEN [valid |-> FALSE, error |-> "Path does not end at the maze end point"]
     ELSE IF \E i \in 1..(Len(p) - 1) : Bad(i)
     THEN [valid |-> FALSE, error |-> "Invalid step"]
     ELSE [valid |-> TRUE, error |-> ""]

(* Side of the square mazes the tools are run on.                          *)
ToolSize == 3

(* Most wall entries an artifact given to the tools has.                   *)
MaxToolWalls == 3

(* The artifacts the tools are run on: start and end are any cells of the  *)
(* grid or of the ring around it, walls are cells of the grid.             *)
ToolArtifacts ==
  {[width |-> ToolSize, height |-> ToolSize, start |-> s, end |-> e, walls |-> ws] :
     s \in (0..(ToolSize + 1)) \X (0..(ToolSize + 1)),
     e \in (0..(ToolSize + 1)) \X (0..(ToolSize + 1)),
     ws \in {x \in SUBSET ((1..ToolSize) \X (1..ToolSize)) : Cardinality(x) <= MaxToolWalls}}

InitTools ==
  /\ pc = "tool"
  /\ maze \in ToolArtifacts
  /\ height = ToolSize /\ width = ToolSize
  /\ grid = {} /\ start = NoCell /\ end = NoCell
  /\ gridIn = {} /\ gridMid = {} /\ conn1 = 0 /\ conn2 = 0
  /\ attempts = 0 /\ branch = "none" /\ file = NoMaze
  /\ connectivityInfo = 0 /\ accessibilityInfo = 0 /\ finalCheck = 0
  /\ artifacts = {} /\ rng = <<0>> /\ walls = <<>>
  /\ ToolsUnused

(* node bot.js <maze>: the loader returns the grid or exits.               *)
botParseMaze ==
  LET Loaded(r) ==
        /\ mazeGrid' = r.maze
        /\ pc' = IF r.exited THEN "bot_exited" ELSE "bot_loaded"
  IN /\ pc = "tool"
     /\ Loaded(parseMazeFromJson(maze))
     /\ UNCHANGED <<fnVars, mainVars, genVars, solutionPath, solution, validation,
                    leaderboard, submitted, operations, runs>>

(* node generate_solution.js <maze> <output>: solveMaze, the conversion of *)
(* the path, and the solution file written.                                *)
generateSolution ==
  LET Solved(p) ==
        /\ solutionPath' = p
        /\ solution' = [mazeName |-> "maze", path |-> convertToR1C1Notation(p)]
  IN /\ pc = "tool"
     /\ Solved(solveMaze(maze))
     /\ pc' = "generated"
     /\ UNCHANGED <<fnVars, mainVars, genVars, mazeGrid, validation, leaderboard, submitted, operations, runs>>

(* node validate_solution.js <maze> <solution>: validate(maze,             *)
(* solution.path) on the file generate_solution.js wrote.                  *)
validateSolution ==
  /\ pc = "generated"
  /\ validation' = validate(maze, solution.path)
  /\ pc' = "validated"
  /\ UNCHANGED <<fnVars, mainVars, genVars, mazeGrid, solutionPath, solution, leaderboard,
                 submitted, operations, runs>>

NextTools == botParseMaze \/ generateSolution \/ validateSolution

SpecTools == InitTools /\ [][NextTools]_vars

(* C11: whenever the loader of bot.js returns a grid, start and end of the *)
(* artifact lie inside [1,height]x[1,width] and are not entries of walls.  *)
C11_LoaderRejectsBadStartEnd ==
  pc = "bot_loaded" =>
    /\ InGrid(maze.height, maze.width, ZeroIndexed(maze.start))
    /\ InGrid(maze.height, maze.width, ZeroIndexed(maze.end))
    /\ maze.start \notin maze.walls
    /\ maze.end \notin maze.walls

(* C12: for an artifact with a path from start to end, validate judges the *)
(* solution file generate_solution.js wrote for it valid.                  *)
C12_GeneratedSolutionValidates ==
  (pc = "validated" /\ HasPath(maze)) => validation.valid

----------------------------------------------------------------------------
(* verify.js: the artifact is loaded by the same parseMazeFromJson as in   *)
(* bot.js, the path is a list of 0-indexed [x, y] cells.                   *)

(* findChar(maze, char): the first cell holding char in row-major order,   *)
(* as [x, y]; NoCell is null.                                              *)
findChar(g, h, w, char) ==
  LET Found(cells) == IF cells = <<>> THEN NoCell ELSE <<cells[1][2], cells[1][1]>>
  IN Found(RowMajor({c \in Cells(h, w) : g[c] = char}, h, w))

(* isAdjacent(a, b).                                                       *)
isAdjacent(a, b) == Abs(a[1] - b[1]) + Abs(a[2] - b[2]) = 1

(* The same as validatePath, without the test of adjacency.                *)
validatePathNoAdjacency(g, h, w, p) ==
  LET Ends(s, e) ==
        IF s = NoCell \/ e = NoCell THEN FALSE
        ELSE IF p[1][1] # s[1] \/ p[1][2] # s[2] THEN FALSE
        ELSE IF p[Len(p)][1] # e[1] \/ p[Len(p)][2] # e[2] THEN FALSE
        ELSE \A i \in 1..Len(p) :
               /\ ~(p[i][2] < 0 \/ p[i][2] >= h \/ p[i][1] < 0 \/ p[i][1] >= w)
               /\ g[<<p[i][2], p[i][1]>>] # "#"
  IN IF Len(p) < 2 THEN FALSE
     ELSE Ends(findChar(g, h, w, "S"), findChar(g, h, w, "E"))

(* validatePath(maze, path) of verify.js; h is maze.length and w is        *)
(* maze[0].length.                                                         *)
validatePath(g, h, w, p) ==
  LET Ends(s, e) ==
        IF s = NoCell \/ e = NoCell THEN FALSE
        ELSE IF p[1][1] # s[1] \/ p[1][2] # s[2] THEN FALSE
        ELSE IF p[Len(p)][1] # e[1] \/ p[Len(p)][2] # e[2] THEN FALSE
        ELSE \A i \in 1..Len(p) :
               /\ ~(p[i][2] < 0 \/ p[i][2] >= h \/ p[i][1] < 0 \/ p[i][1] >= w)
               /\ g[<<p[i][2], p[i][1]>>] # "#"
               /\ ~(i > 1 /\ ~isAdjacent(p[i - 1], p[i]))
  IN IF Len(p) < 2 THEN FALSE
     ELSE Ends(findChar(g, h, w, "S"), findChar(g, h, w, "E"))

(* Side of the square mazes verify.js is run on.                           *)
VerifySize == 2

(* Most wall entries of an artifact given to verify.js.                    *)
MaxVerifyWalls == 1

(* Most cells of a path given to verify.js.                                *)
MaxPathLen == 3

(* The paths verify.js is run on: up to MaxPathLen cells of the grid or of *)
(* the ring around it.                                                     *)
VerifyPaths ==
  UNION {[1..n -> (-1..VerifySize) \X (-1..VerifySize)] : n \in 0..MaxPathLen}

InitVerify ==
  /\ pc = "verify"
  /\ maze \in {[width |-> VerifySize, height |-> VerifySize, start |-> s, end |-> e,
                walls |-> ws] :
                 s \in (1..VerifySize) \X (1..VerifySize),
                 e \in (1..VerifySize) \X (1..VerifySize),
                 ws \in {x \in SUBSET ((1..VerifySize) \X (1..VerifySize)) :
                           Cardinality(x) <= MaxVerifyWalls}}
  /\ height = VerifySize /\ width = VerifySize
  /\ grid = {} /\ start = NoCell /\ end = NoCell
  /\ gridIn = {} /\ gridMid = {} /\ conn1 = 0 /\ conn2 = 0
  /\ attempts = 0 /\ branch = "none" /\ file = NoMaze
  /\ connectivityInfo = 0 /\ accessibilityInfo = 0 /\ finalCheck = 0
  /\ artifacts = {} /\ rng = <<0>> /\ walls = <<>>
  /\ ToolsUnused

(* node verify.js <mazeFile> <solutionPath>: the maze is loaded, then      *)
(* validatePath judges the parsed path.                                    *)
verifyPath ==
  LET Loaded(r, p) ==
        /\ mazeGrid' = r.maze
        /\ solutionPath' = p
        /\ IF r.exited
           THEN pc' = "verify_exited" /\ validation' = validation
           ELSE /\ pc' = "verified"
                /\ validation' = [valid |-> validatePath(r.maze, maze.height, maze.width, p)]
  IN /\ pc = "verify"
     /\ \E p \in VerifyPaths : Loaded(parseMazeFromJson(maze), p)
     /\ UNCHANGED <<fnVars, mainVars, genVars, solution, leaderboard, submitted, operations, runs>>

NextVerify == verifyPath

SpecVerify == InitVerify /\ [][NextVerify]_vars

(* The rules of a solution path, on the loaded grid: at least two cells,   *)
(* from the cell marked 'S' to the cell marked 'E', every cell inside the  *)
(* grid and not '#', every move to an orthogonally adjacent cell.          *)
FollowsRules(g, h, w, p) ==
  /\ Len(p) >= 2
  /\ \E s \in Cells(h, w) : g[s] = "S" /\ p[1] = <<s[2], s[1]>>
  /\ \E e \in Cells(h, w) : g[e] = "E" /\ p[Len(p)] = <<e[2], e[1]>>
  /\ \A i \in 1..Len(p) : <<p[i][2], p[i][1]>> \in Cells(h, w)
  /\ \A i \in 1..Len(p) : g[<<p[i][2], p[i][1]>>] # "#"
  /\ \A i \in 1..(Len(p) - 1) : Manhattan(p[i], p[i + 1]) = 1

(* C13: validatePath returns true exactly when the path has at least two   *)
(* cells, starts at the start, ends at the end, stays inside the grid and  *)
(* off the walls, and moves between orthogonally adjacent cells only.      *)
C13_ValidatePathExact ==
  pc = "verified" =>
    (validation.valid <=> FollowsRules(mazeGrid, maze.height, maze.width, solutionPath))

(* A path of three cells around a corner is judged valid.                  *)
C13_Witness ==
  /\ pc = "verified"
  /\ validation.valid
  /\ Len(solutionPath) = 3
  /\ maze.walls # {}

----------------------------------------------------------------------------
(* The leaderboard: leaderboard/leaderboard.js and                         *)
(* leaderboard/add_verification_point.js.  leaderboard is the list teams   *)
(* of leaderboard.json, empty before the first update.  A team is a record *)
(* name, solutions, totalSolved, points, averageExecutionTime and          *)
(* verificationPoints; an absent verificationPoints is 0, which every      *)
(* reader of the field treats the same way.  averageExecutionTime is the   *)
(* pair <<sum, count>> of the quotient the code stores.  The path of a     *)
(* solution file is the list of the cells <<row, col>> its "(rXcY)"        *)
(* strings name.                                                           *)

(* The average of the execution times of a list of solutions.              *)
RECURSIVE SumOfTimes(_)
SumOfTimes(solutions) ==
  IF solutions = <<>> THEN 0
  ELSE Head(solutions).executionTime + SumOfTimes(Tail(solutions))

(* a.averageExecutionTime - b.averageExecutionTime <= 0.                   *)
AverageNotAfter(a, b) ==
  a.averageExecutionTime[1] * b.averageExecutionTime[2]
    <= b.averageExecutionTime[1] * a.averageExecutionTime[2]

(* The comparison of updateLeaderboard: points, then totalSolved, both     *)
(* descending, then averageExecutionTime ascending.                        *)
ComparePoints(a, b) ==
  IF b.points # a.points THEN b.points - a.points <= 0
  ELSE IF b.totalSolved # a.totalSolved THEN b.totalSolved - a.totalSolved <= 0
  ELSE AverageNotAfter(a, b)

(* The comparison of addVerificationPoint: 3 * totalSolved +               *)
(* verificationPoints, then totalSolved, then averageExecutionTime.        *)
CompareRecomputed(a, b) ==
  LET aPoints == (a.totalSolved * 3) + a.verificationPoints
      bPoints == (b.totalSolved * 3) + b.verificationPoints
  IN IF bPoints # aPoints THEN bPoints - aPoints <= 0
     ELSE IF b.totalSolved # a.totalSolved THEN b.totalSolved - a.totalSolved <= 0
     ELSE AverageNotAfter(a, b)

(* leaderboard.teams.sort(compare): a stable sort, with the comparison of  *)
(* addVerificationPoint when recomputed and of updateLeaderboard otherwise.*)
RECURSIVE SortTeams(_, _)
SortTeams(teams, recomputed) ==
  IF teams = <<>> THEN <<>>
  ELSE LET item == teams[Len(teams)]
           NotAfter(t) == IF recomputed THEN CompareRecomputed(t, item)
                          ELSE ComparePoints(t, item)
           Insert(sorted) ==
             SelectSeq(sorted, NotAfter) \o <<item>>
               \o SelectSeq(sorted, LAMBDA t : ~NotAfter(t))
       IN Insert(SortTeams(SubSeq(teams, 1, Len(teams) - 1), recomputed))

(* findIndex: the first index of s whose element satisfies Test, 0 for -1. *)
FindIndex(s, Test(_)) ==
  IF \E i \in 1..Len(s) : Test(s[i])
  THEN CHOOSE i \in 1..Len(s) : Test(s[i]) /\ \A j \in 1..(i - 1) : ~Test(s[j])
  ELSE 0

(* parseSolution(solutionFile): the four fields must be truthy; the        *)
(* validation of the path is commented out and isValid is true.            *)
parseSolution(f) ==
  IF f.team = "" \/ f.mazeName = "" \/ f.executionTime = 0
  THEN [valid |-> FALSE, solution |-> <<>>]
  ELSE [valid |-> TRUE,
        solution |-> [team |-> f.team, mazeName |-> f.mazeName,
                      pathLength |-> Len(f.path), executionTime |-> f.executionTime,
                      valid |-> TRUE]]

(* The same as updateLeaderboard, with the points of a team set to three   *)
(* times its solved mazes when it solves a new maze.                       *)
updateLeaderboardRecount(teams, f) ==
  LET Averaged(team) ==
        [team EXCEPT !.averageExecutionTime =
                       <<SumOfTimes(team.solutions), Len(team.solutions)>>]
      Stored(teamIndex, team) ==
        SortTeams([teams EXCEPT ![teamIndex] = Averaged(team)], FALSE)
      Existing(teamIndex, team, entry, mazeIndex) ==
        IF mazeIndex = 0
        THEN Stored(teamIndex,
                    [team EXCEPT !.solutions = Append(@, entry),
                                 !.totalSolved = @ + 1,
                                 !.points = 3 * (team.totalSolved + 1)])
        ELSE IF entry.executionTime < team.solutions[mazeIndex].executionTime
        THEN Stored(teamIndex, [team EXCEPT !.solutions[mazeIndex] = entry])
        ELSE teams
      Update(entry, teamIndex) ==
        IF teamIndex = 0
        THEN SortTeams(Append(teams, [name |-> entry.team,
                                      solutions |-> <<entry>>,
                                      totalSolved |-> 1,
                                      points |-> 3,
                                      averageExecutionTime |->
                                        <<entry.executionTime, 1>>,
                                      verificationPoints |-> 0]),
                       FALSE)
        ELSE Existing(teamIndex, teams[teamIndex], entry,
                      FindIndex(teams[teamIndex].solutions,
                                LAMBDA s : s.mazeName = entry.mazeName))
      Parsed(r) ==
        IF ~r.valid THEN teams
        ELSE Update(r.solution, FindIndex(teams, LAMBDA t : t.name = r.solution.team))
  IN Parsed(parseSolution(f))

(* updateLeaderboard(solutionFile) on the teams of leaderboard.json: the   *)
(* result is the list written back, or the list as it was when the         *)
(* function returns before writing.                                        *)
updateLeaderboard(teams, f) ==
  LET Averaged(team) ==
        [team EXCEPT !.averageExecutionTime =
                       <<SumOfTimes(team.solutions), Len(team.solutions)>>]
      Stored(teamIndex, team) ==
        SortTeams([teams EXCEPT ![teamIndex] = Averaged(team)], FALSE)
      Existing(teamIndex, team, entry, mazeIndex) ==
        IF mazeIndex = 0
        THEN Stored(teamIndex,
                    [team EXCEPT !.solutions = Append(@, entry),
                                 !.totalSolved = @ + 1,
                                 !.points = IF @ # 0 THEN @ + 3 ELSE 3])
        ELSE IF entry.executionTime < team.solutions[mazeIndex].executionTime
        THEN Stored(teamIndex, [team EXCEPT !.solutions[mazeIndex] = entry])
        ELSE teams
      Update(entry, teamIndex) ==
        IF teamIndex = 0
        THEN SortTeams(Append(teams, [name |-> entry.team,
                                      solutions |-> <<entry>>,
                                      totalSolved |-> 1,
                                      points |-> 3,
                                      averageExecutionTime |->
                                        <<entry.executionTime, 1>>,
                                      verificationPoints |-> 0]),
                       FALSE)
        ELSE Existing(teamIndex, teams[teamIndex], entry,
                      FindIndex(teams[teamIndex].solutions,
                                LAMBDA s : s.mazeName = entry.mazeName))
      Parsed(r) ==
        IF ~r.valid THEN teams
        ELSE Update(r.solution, FindIndex(teams, LAMBDA t : t.name = r.solution.team))
  IN Parsed(parseSolution(f))

(* teamName.toLowerCase() for the team names of the runs.                  *)
ToLowerCase(name) == IF name = "Ace" THEN "ace" ELSE name

(* addVerificationPoint(teamName, leaderboard) followed by                 *)
(* writeLeaderboard when it returns true.                                  *)
addVerificationPoint(teamName, teams) ==
  LET Added(team) ==
        [team EXCEPT !.verificationPoints = @ + 1,
                     !.points = (team.totalSolved * 3) + team.verificationPoints + 1]
      Found(teamIndex) ==
        IF teamIndex = 0 THEN teams
        ELSE SortTeams([teams EXCEPT ![teamIndex] = Added(teams[teamIndex])],
                       TRUE)
  IN Found(FindIndex(teams, LAMBDA t : ToLowerCase(t.name) = ToLowerCase(teamName)))

(* The team names of the runs; two of them differ in case only.            *)
TeamNames == {"Ace", "ace"}

(* The mazes of the mazes directory in the runs.                           *)
MazeFiles ==
  [name \in {"maze1.json", "maze2.json"} |->
     IF name = "maze1.json"
     THEN [width |-> 2, height |-> 2, start |-> <<1, 1>>, end |-> <<1, 2>>, walls |-> {}]
     ELSE [width |-> 2, height |-> 2, start |-> <<1, 1>>, end |-> <<2, 2>>,
           walls |-> {<<1, 2>>}]]

(* The paths of the solution files of the runs.                            *)
SubmittedPaths ==
  {<< <<1, 1>>, <<1, 2>> >>, << <<1, 1>>, <<2, 1>>, <<2, 2>> >>}

(* Largest executionTime of a solution file, in milliseconds; 0 is also    *)
(* submitted.                                                              *)
MaxTime == 2

(* Most leaderboard commands of a run.                                     *)
MaxOperations == 4

(* No time submitted yet.                                                  *)
NoTime == -1

InitLeaderboard ==
  /\ pc = "initialized"
  /\ leaderboard = <<>>
  /\ solution = <<>>
  /\ submitted = [k \in TeamNames \X DOMAIN MazeFiles |-> NoTime]
  /\ operations = 0
  /\ runs = <<>>
  /\ mazeGrid = <<>> /\ solutionPath = <<>> /\ validation = <<>>
  /\ maze = NoMaze
  /\ height = 0 /\ width = 0
  /\ grid = {} /\ start = NoCell /\ end = NoCell
  /\ gridIn = {} /\ gridMid = {} /\ conn1 = 0 /\ conn2 = 0
  /\ attempts = 0 /\ branch = "none" /\ file = NoMaze
  /\ connectivityInfo = 0 /\ accessibilityInfo = 0 /\ finalCheck = 0
  /\ artifacts = {} /\ rng = <<0>> /\ walls = <<>>

(* node leaderboard/leaderboard.js update <solution_file>.                 *)
update ==
  \E team \in TeamNames, mazeName \in DOMAIN MazeFiles, p \in SubmittedPaths,
     executionTime \in 0..MaxTime :
    /\ operations < MaxOperations
    /\ operations' = operations + 1
    /\ solution' = [team |-> team, mazeName |-> mazeName, path |-> p,
                    executionTime |-> executionTime]
    /\ leaderboard' = updateLeaderboard(leaderboard, solution')
    /\ submitted' = [submitted EXCEPT ![<<team, mazeName>>] =
                       IF @ = NoTime \/ executionTime < @ THEN executionTime ELSE @]
    /\ pc' = "updated"
    /\ UNCHANGED <<fnVars, mainVars, genVars, mazeGrid, solutionPath, validation, runs>>

(* node leaderboard/add_verification_point.js <team_name>.                 *)
verification ==
  \E teamName \in TeamNames :
    /\ operations < MaxOperations
    /\ operations' = operations + 1
    /\ leaderboard' = addVerificationPoint(teamName, leaderboard)
    /\ pc' = "verification"
    /\ UNCHANGED <<fnVars, mainVars, genVars, mazeGrid, solutionPath, solution,
                   validation, submitted, runs>>

NextLeaderboard == update \/ verification

SpecLeaderboard == InitLeaderboard /\ [][NextLeaderboard]_vars

(* The path of solution file f is a valid path through the maze f names:   *)
(* what validatePath of verify.js says of it on the loaded maze.           *)
PathIsValid(f) ==
  validatePath(parseMazeFromJson(MazeFiles[f.mazeName]).maze,
               MazeFiles[f.mazeName].height, MazeFiles[f.mazeName].width,
               [i \in 1..Len(f.path) |-> <<f.path[i][2] - 1, f.path[i][1] - 1>>])

(* C14: an update with a solution file whose path is not a valid path      *)
(* through its maze leaves the leaderboard as it was.                      *)
C14_InvalidPathChangesNothing ==
  [][(pc' = "updated" /\ ~PathIsValid(solution')) => leaderboard' = leaderboard]_vars

(* C15: every team has points = 3 * totalSolved + verificationPoints, and  *)
(* totalSolved is the number of mazes it has a recorded solution for.      *)
C15_PointsInvariant ==
  \A i \in 1..Len(leaderboard) :
    /\ leaderboard[i].points
         = 3 * leaderboard[i].totalSolved + leaderboard[i].verificationPoints
    /\ leaderboard[i].totalSolved
         = Cardinality({leaderboard[i].solutions[j].mazeName :
                          j \in 1..Len(leaderboard[i].solutions)})

(* A team with a verification point solved a second maze afterwards.       *)
C15_Witness ==
  /\ pc = "updated"
  /\ \E i \in 1..Len(leaderboard) :
       /\ leaderboard[i].verificationPoints > 0
       /\ leaderboard[i].totalSolved = 2
       /\ leaderboard[i].solutions[2].mazeName = solution.mazeName
       /\ leaderboard[i].name = solution.team

(* C16: the leaderboard holds at most one solution for a team and a maze,  *)
(* and when a solution was submitted for them it holds one whose           *)
(* executionTime is the least submitted.                                   *)
C16_FastestSolutionKept ==
  \A k \in DOMAIN submitted :
    LET held == {s \in UNION {{[team |-> leaderboard[i].name,
                                index |-> j,
                                solution |-> leaderboard[i].solutions[j]] :
                                 j \in 1..Len(leaderboard[i].solutions)} :
                                i \in 1..Len(leaderboard)} :
                   s.team = k[1] /\ s.solution.mazeName = k[2]}
    IN /\ Cardinality(held) <= 1
       /\ submitted[k] # NoTime =>
            \E s \in held : s.solution.executionTime = submitted[k]

----------------------------------------------------------------------------
(* The repair functions called once on a grid with an all-wall border,     *)
(* with a start that is a passage or a wall.                               *)

(* Side of the square grids of these calls.                                *)
AccessSize == 5

InitAccess ==
  /\ pc = "call"
  /\ height = AccessSize
  /\ width = AccessSize
  /\ grid \in SUBSET (Cells(AccessSize, AccessSize) \ Border(AccessSize, AccessSize))
  /\ start \in Cells(AccessSize, AccessSize) \ Border(AccessSize, AccessSize)
  /\ end = start
  /\ gridIn = grid
  /\ gridMid = grid
  /\ conn1 = 0
  /\ conn2 = 0
  /\ attempts = 0 /\ maze = NoMaze /\ branch = "none" /\ file = NoMaze
  /\ connectivityInfo = 0 /\ accessibilityInfo = 0 /\ finalCheck = 0
  /\ artifacts = {} /\ rng = <<0>> /\ walls = <<>>
  /\ ToolsUnused

(* ensureFullConnectivity(grid, start) returns connectionsAdded.           *)
CallEnsureFullConnectivity ==
  /\ pc = "call"
  /\ \E r \in ensureFullConnectivity(grid, height, width, start) :
       /\ grid' = r[1]
       /\ conn1' = r[2]
  /\ pc' = "ensureFullConnectivity"
  /\ UNCHANGED <<height, width, start, end, gridIn, gridMid, conn2, mainVars, genVars,
                 toolVars>>

(* ensureAllCellsAccessible(grid, start, end) returns connectionsAdded,    *)
(* openAreasFixed and secondPassConnections.                               *)
CallEnsureAllCellsAccessible ==
  /\ pc = "call"
  /\ \E r \in ensureAllCellsAccessible(grid, height, width, start) :
       /\ grid' = r[1]
       /\ conn1' = r[2]
       /\ conn2' = r[3]
       /\ accessibilityInfo' = r[4]
  /\ pc' = "ensureAllCellsAccessible"
  /\ UNCHANGED <<height, width, start, end, gridIn, gridMid, attempts, maze, branch,
                 connectivityInfo, finalCheck, file, genVars, toolVars>>

NextAccess == CallEnsureFullConnectivity \/ CallEnsureAllCellsAccessible

SpecAccess == InitAccess /\ [][NextAccess]_vars

(* C19: a repair function called with a start that is a wall leaves the    *)
(* grid as it was.                                                         *)
C19_WallStartLeavesGrid ==
  (pc \in {"ensureFullConnectivity", "ensureAllCellsAccessible"} /\ start \notin gridIn)
    => grid = gridIn

(* C20: when ensureAllCellsAccessible returns from a call with a passage   *)
(* start, every interior passage of the grid is reachable from start.      *)
C20_AllCellsAccessibleAtReturn ==
  (pc = "ensureAllCellsAccessible" /\ start \in gridIn)
    => \A c \in Range(InteriorOpenCells(grid, height, width)) :
         c \in Range(BfsFrom(grid, height, width, start))

----------------------------------------------------------------------------
(* Single passes of the hedge generator called once on a grid with an      *)
(* all-wall border: the dead-end loop of addMazeComplexity,                *)
(* breakUpLargeOpenAreas followed by the final verification of             *)
(* generateHedgeMaze, and verifyFullConnectivity.                          *)

(* b is reachable from a through passages of g.                            *)
Connected(g, h, w, a, b) == b \in Range(BfsFrom(g, h, w, a))

(* The characters of the template literal `${y},${x}`: what                *)
(* new Set(string) holds.                                                  *)
KeyCharacters(c) ==
  Range(NumberToString(c[1])) \cup {","} \cup Range(NumberToString(c[2]))

(* The object verifyFullConnectivity(grid, start) returns, without the     *)
(* list of unreachable cells.  visited starts as the set of characters of  *)
(* the start key, and visited.size counts them.                            *)
verifyFullConnectivityResult(g, h, w, s) ==
  LET visited == VisitedCharSet(g, h, w, s)
      unreachableCells == g \ visited
  IN [connectivityStatus |-> IF unreachableCells = {} THEN "FULLY CONNECTED"
                             ELSE "DISCONNECTED",
      totalOpenCells |-> Cardinality(g),
      reachableCells |-> Cardinality(KeyCharacters(s)) + Cardinality(visited),
      unreachableCells |-> Cardinality(unreachableCells)]

(* The dead-end loop of addMazeComplexity(grid, width, height, {start,     *)
(* end}) with its deadEndCount iterations.                                 *)
CallDeadEnds ==
  /\ pc = "call"
  /\ grid' \in DeadEnds({grid}, ComplexityCount(height, width, 8), height, width,
                        {start, end})
  /\ pc' = "deadEnds"
  /\ UNCHANGED <<height, width, start, end, gridIn, gridMid, conn1, conn2, mainVars,
                 genVars, toolVars>>

(* finalOpenAreas = breakUpLargeOpenAreas(grid, width, height)             *)
CallBreakUpLargeOpenAreas ==
  /\ pc = "call"
  /\ \E b \in breakUpLargeOpenAreas(grid, height, width) :
       /\ grid' = b[1]
       /\ gridMid' = b[1]
       /\ conn1' = b[2]
  /\ pc' = "breakUpLargeOpenAreas"
  /\ UNCHANGED <<height, width, start, end, gridIn, conn2, mainVars, genVars, toolVars>>

(* The final verification of generateHedgeMaze, after which the grid is    *)
(* only read.                                                              *)
CallFinalVerification ==
  /\ pc = "breakUpLargeOpenAreas"
  /\ grid' \in FinalVerification(grid, height, width, start)
  /\ pc' = "generateHedgeMaze"
  /\ UNCHANGED <<height, width, start, end, gridIn, gridMid, conn1, conn2, mainVars,
                 genVars, toolVars>>

(* connectivityInfo = verifyFullConnectivity(grid, start)                  *)
CallVerifyFullConnectivity ==
  /\ pc = "call"
  /\ connectivityInfo' = verifyFullConnectivityResult(grid, height, width, start)
  /\ pc' = "verifyFullConnectivity"
  /\ UNCHANGED <<fnVars, genVars, toolVars, attempts, maze, branch, accessibilityInfo,
                 finalCheck, file>>

NextPasses ==
  \/ CallDeadEnds
  \/ CallBreakUpLargeOpenAreas
  \/ CallFinalVerification
  \/ CallVerifyFullConnectivity

SpecPasses == InitAccess /\ [][NextPasses]_vars

(* C21: the dead-end loop of addMazeComplexity never disconnects two       *)
(* passage cells: cells that are passages after the loop and were joined   *)
(* by a passage path before it are still joined by one.                    *)
C21_DeadEndsKeepConnectivity ==
  pc = "deadEnds" =>
    \A a \in grid :
      (Range(BfsFrom(gridIn, height, width, a)) \cap grid)
        \subseteq Range(BfsFrom(grid, height, width, a))

(* An open 2x2 block with its top-left corner in rows 1..height-3 and      *)
(* columns 1..width-3.                                                     *)
HasOpenBlock(g, h, w) ==
  \E y \in 1..(h - 3), x \in 1..(w - 3) :
    {<<y, x>>, <<y, x + 1>>, <<y + 1, x>>, <<y + 1, x + 1>>} \subseteq g

(* C24: no 2x2 block of passages is left when breakUpLargeOpenAreas        *)
(* returns, nor in the grid generateHedgeMaze goes on to return.           *)
C24_NoOpenBlockLeft ==
  pc \in {"breakUpLargeOpenAreas", "generateHedgeMaze"}
    => ~HasOpenBlock(grid, height, width)

(* The pass walled cells of two or more blocks, and the final verification *)
(* carved a corridor after it.                                             *)
C24_Witness ==
  /\ pc = "generateHedgeMaze"
  /\ conn1 >= 2
  /\ HasOpenBlock(gridIn, height, width)
  /\ grid # gridMid

(* C28: for an open start verifyFullConnectivity returns as reachableCells *)
(* the number of passages reachable from start, start included, and        *)
(* reports FULLY CONNECTED and zero unreachable cells exactly when that    *)
(* number equals totalOpenCells.                                           *)
C28_VerifyCountsReachable ==
  (pc = "verifyFullConnectivity" /\ start \in grid) =>
    /\ connectivityInfo.reachableCells
         = Cardinality(Range(BfsFrom(grid, height, width, start)))
    /\ connectivityInfo.connectivityStatus = "FULLY CONNECTED"
         <=> connectivityInfo.reachableCells = connectivityInfo.totalOpenCells
    /\ connectivityInfo.unreachableCells = 0
         <=> connectivityInfo.reachableCells = connectivityInfo.totalOpenCells

----------------------------------------------------------------------------
(* The edge-run passes of the hedge generator called once on a grid with   *)
(* an all-wall border.                                                     *)

(* The dimensions of the grids of these calls: EdgeHeight x EdgeWidth, on  *)
(* which rows hold a long run, and the (EdgeWidth - 2) x EdgeHeight grid,  *)
(* on which columns do.                                                    *)
EdgeHeight == 5

EdgeWidth == 9

(* Most passage cells an input grid of these calls has.                    *)
MaxEdgeCells == 6

InitEdge ==
  /\ pc = "call"
  /\ \E d \in {<<EdgeHeight, EdgeWidth>>, <<EdgeWidth - 2, EdgeHeight>>} :
       /\ height = d[1]
       /\ width = d[2]
  /\ grid \in {g \in SUBSET (Cells(height, width) \ Border(height, width))
               : Cardinality(g) <= MaxEdgeCells}
  /\ start = NoCell
  /\ end = NoCell
  /\ gridIn = grid
  /\ gridMid = grid
  /\ conn1 = 0
  /\ conn2 = 0
  /\ attempts = 0 /\ maze = NoMaze /\ branch = "none" /\ file = NoMaze
  /\ connectivityInfo = 0 /\ accessibilityInfo = 0 /\ finalCheck = 0
  /\ artifacts = {} /\ rng = <<0>> /\ walls = <<>>
  /\ ToolsUnused

(* maxRunLength of breakUpEdgeRuns.                                        *)
MaxRunLength(h, w) == Max(3, Min(w, h) \div 5)

(* checkAndBreakHorizontalRun(grid, row, width, maxRunLength) on row 1 or  *)
(* row height-2.                                                           *)
CallCheckAndBreakHorizontalRun ==
  /\ pc = "call"
  /\ \E row \in {1, height - 2} :
       grid' = HorizontalRun(grid, row, 1, -1, height, width, MaxRunLength(height, width))
  /\ pc' = "checkAndBreakHorizontalRun"
  /\ UNCHANGED <<height, width, start, end, gridIn, gridMid, conn1, conn2, mainVars,
                 genVars, toolVars>>

(* checkAndBreakVerticalRun(grid, col, height, maxRunLength) on column 1   *)
(* or column width-2.                                                      *)
CallCheckAndBreakVerticalRun ==
  /\ pc = "call"
  /\ \E col \in {1, width - 2} :
       grid' = VerticalRun(grid, col, 1, -1, height, width, MaxRunLength(height, width))
  /\ pc' = "checkAndBreakVerticalRun"
  /\ UNCHANGED <<height, width, start, end, gridIn, gridMid, conn1, conn2, mainVars,
                 genVars, toolVars>>

(* breakUpEdgeRuns(grid, width, height)                                    *)
CallBreakUpEdgeRuns ==
  /\ pc = "call"
  /\ grid' \in breakUpEdgeRuns(grid, height, width)
  /\ pc' = "breakUpEdgeRuns"
  /\ UNCHANGED <<height, width, start, end, gridIn, gridMid, conn1, conn2, mainVars,
                 genVars, toolVars>>

NextEdge ==
  \/ CallCheckAndBreakHorizontalRun
  \/ CallCheckAndBreakVerticalRun
  \/ CallBreakUpEdgeRuns

SpecEdge == InitEdge /\ [][NextEdge]_vars

(* C22: two passage cells joined by a passage path before a call of        *)
(* checkAndBreakHorizontalRun or checkAndBreakVerticalRun, neither of them *)
(* a midpoint the call walled, are joined by one after it.                 *)
C22_EdgeBreakKeepsConnectivity ==
  (pc \in {"checkAndBreakHorizontalRun", "checkAndBreakVerticalRun"} /\ grid # gridIn) =>
    \A a \in gridIn \cap grid :
      (Range(BfsFrom(gridIn, height, width, a)) \cap grid)
        \subseteq Range(BfsFrom(grid, height, width, a))

(* More than n consecutive passages among the cells 1..size-2 of row or    *)
(* column line (row when horizontal).                                      *)
HasLongRun(g, line, len, n, horizontal) ==
  \E first \in 1..(len - 2 - n) :
    \A k \in 0..n :
      (IF horizontal THEN <<line, first + k>> ELSE <<first + k, line>>) \in g

(* C23: when breakUpEdgeRuns returns, row 1, row height-2, column 1 and    *)
(* column width-2 hold no run of more than maxRunLength passages.          *)
C23_NoLongEdgeRunLeft ==
  pc = "breakUpEdgeRuns" =>
    /\ ~HasLongRun(grid, 1, width, MaxRunLength(height, width), TRUE)
    /\ ~HasLongRun(grid, height - 2, width, MaxRunLength(height, width), TRUE)
    /\ ~HasLongRun(grid, 1, height, MaxRunLength(height, width), FALSE)
    /\ ~HasLongRun(grid, width - 2, height, MaxRunLength(height, width), FALSE)

----------------------------------------------------------------------------
(* The Prim loop of generateHedgeMaze, one iteration at a time, with every *)
(* value Math.random() can give for the start cell and for randomIndex.    *)

(* The height and width generateHedgeMaze is called with.                  *)
PrimHeight == 5

PrimWidth == 7

(* The cells with both coordinates odd.                                    *)
OddCells(h, w) == {c \in Cells(h, w) : c[1] % 2 = 1 /\ c[2] % 2 = 1}

InitPrim ==
  /\ pc = "while"
  /\ height = IF PrimHeight % 2 = 0 THEN PrimHeight + 1 ELSE PrimHeight
  /\ width = IF PrimWidth % 2 = 0 THEN PrimWidth + 1 ELSE PrimWidth
  /\ start \in {<<2 * ky + 1, 2 * kx + 1>> :
                  ky \in 0..((height \div 2) - 1), kx \in 0..((width \div 2) - 1)}
  /\ grid = {start}
  /\ walls = PrimWalls({}, height, width, start)
  /\ end = NoCell
  /\ gridIn = {}
  /\ gridMid = {}
  /\ conn1 = 0
  /\ conn2 = 0
  /\ attempts = 0 /\ maze = NoMaze /\ branch = "none" /\ file = NoMaze
  /\ connectivityInfo = 0 /\ accessibilityInfo = 0 /\ finalCheck = 0
  /\ artifacts = {} /\ rng = <<0>>
  /\ ToolsUnused

(* One iteration of while (walls.length > 0); conn1 counts the entries     *)
(* spliced out whose opposite cell was a passage already.                  *)
PrimIteration ==
  /\ pc = "while"
  /\ walls # <<>>
  /\ \E i \in 1..Len(walls) :
       /\ grid' = PrimCarve(<<grid, walls>>, height, width, i)[1]
       /\ walls' = PrimCarve(<<grid, walls>>, height, width, i)[2]
  /\ conn1' = IF grid' = grid THEN conn1 + 1 ELSE conn1
  /\ UNCHANGED <<pc, height, width, start, end, gridIn, gridMid, conn2, mainVars,
                 artifacts, rng, toolVars>>

(* The loop exits and addInteriorWalls is about to be called.              *)
PrimExit ==
  /\ pc = "while"
  /\ walls = <<>>
  /\ pc' = "addInteriorWalls"
  /\ UNCHANGED <<fnVars, mainVars, genVars, toolVars>>

NextPrim == PrimIteration \/ PrimExit

SpecPrim == InitPrim /\ [][NextPrim]_vars /\ WF_vars(NextPrim)

(* The pairs of orthogonally adjacent passages of g.                       *)
PassageEdges(g) == {e \in SUBSET g : \E c \in g, i \in {2, 4} : e = {c, Step(c, Dirs[i])} /\ Step(c, Dirs[i]) \in g}

(* C25: the Prim loop of generateHedgeMaze ends, and when it has ended,    *)
(* with an empty wall list, every cell with two odd coordinates is a       *)
(* passage and the passages form a tree: all are reachable from one        *)
(* another and there are as many adjacent pairs as passages less one, so   *)
(* that exactly one simple path joins any two of them.                     *)
C25_PrimSpanningTree ==
  /\ [](pc = "addInteriorWalls" =>
          /\ walls = <<>>
          /\ OddCells(height, width) \subseteq grid
          /\ \A c \in grid : Range(BfsFrom(grid, height, width, c)) = grid
          /\ Cardinality(PassageEdges(grid)) = Cardinality(grid) - 1)
  /\ <>(pc = "addInteriorWalls")

(* The loop has ended after it started away from the corner and dropped    *)
(* entries whose opposite cell had been carved through another entry.      *)
C25_Witness ==
  /\ pc = "addInteriorWalls"
  /\ start # <<1, 1>>
  /\ conn1 >= 2
  /\ Cardinality(grid) = 2 * Cardinality(OddCells(height, width)) - 1

----------------------------------------------------------------------------
(* The enhanced findOptimalStartEndPair run on a bounded grid.             *)

(* { start, end } = findOptimalStartEndPair(grid, height, width)           *)
PlaceEnhanced ==
  /\ pc = "place0"
  /\ \E r \in findOptimalStartEndPair(grid, height, width) :
       /\ start' = r[1]
       /\ end' = r[2]
       /\ branch' = r[3]
  /\ pc' = "placed"
  /\ UNCHANGED <<height, width, grid, gridIn, gridMid, conn1, conn2, genVars, toolVars,
                 attempts, maze, connectivityInfo, accessibilityInfo, finalCheck, file>>

NextPlaceEnhanced == PlaceEnhanced

SpecPlaceEnhanced == InitPlace /\ [][NextPlaceEnhanced]_vars

(* C26: on a grid with at least two open interior cells the enhanced       *)
(* findOptimalStartEndPair returns two different passage cells of the      *)
(* grid, whichever of its returns is taken.                                *)
C26_PlacementReturnsPassages ==
  (pc = "placed" /\ Len(InteriorOpenCells(grid, height, width)) >= 2) =>
    /\ start # end
    /\ start \in grid
    /\ end \in grid

----------------------------------------------------------------------------
(* ensureValidPath of the anti-bot generator called once on a small grid,  *)
(* the loop of createWindingPath one iteration at a time with every        *)
(* outcome of its draws.  solutionPath is the array path of                *)
(* createWindingPath, conn1 the number ensureValidPath returns.            *)

(* Side of the square grids of these calls.                                *)
WindingSize == 3

(* Most passage cells an input grid of these calls has.                    *)
MaxWindingCells == 2

InitWinding ==
  /\ pc = "ensureValidPath"
  /\ height = WindingSize
  /\ width = WindingSize
  /\ grid \in {g \in SUBSET Cells(WindingSize, WindingSize) : Cardinality(g) <= MaxWindingCells}
  /\ start \in grid
  /\ end \in grid \ {start}
  /\ gridIn = grid
  /\ gridMid = grid
  /\ conn1 = 0
  /\ conn2 = 0
  /\ attempts = 0 /\ maze = NoMaze /\ branch = "none" /\ file = NoMaze
  /\ connectivityInfo = 0 /\ accessibilityInfo = 0 /\ finalCheck = 0
  /\ artifacts = {} /\ rng = <<0>> /\ walls = <<>>
  /\ ToolsUnused

(* pathLength = calculateShortestPath(grid, start, end); the function      *)
(* returns it unless it is 0.                                              *)
CheckPath ==
  /\ pc = "ensureValidPath"
  /\ conn1' = calculateShortestPath(grid, height, width, start, end)
  /\ pc' = IF conn1' = 0 THEN "createWindingPath" ELSE "ensured"
  /\ UNCHANGED <<height, width, grid, start, end, gridIn, gridMid, conn2, mainVars,
                 genVars, toolVars>>

(* One iteration of the while loop of createWindingPath.                   *)
WindingIteration ==
  /\ pc = "createWindingPath"
  /\ LET current == IF solutionPath = <<>> THEN start
                    ELSE solutionPath[Len(solutionPath)]
     IN /\ current # end
        /\ Len(solutionPath) <= 2 * Max(width, height)
        /\ \E direct \in BOOLEAN, toward \in BOOLEAN, first \in BOOLEAN :
             solutionPath' = Append(solutionPath,
                                    windingMove(current, end, height, width,
                                                direct, toward, first))
  /\ UNCHANGED <<pc, fnVars, mainVars, genVars, mazeGrid, solution, validation,
                 leaderboard, submitted, operations, runs>>

(* The loop is left; ensureValidPath carves the cells of path and returns  *)
(* path.length.                                                            *)
CarveWindingPath ==
  /\ pc = "createWindingPath"
  /\ LET current == IF solutionPath = <<>> THEN start
                    ELSE solutionPath[Len(solutionPath)]
     IN current = end \/ Len(solutionPath) > 2 * Max(width, height)
  /\ grid' = grid \cup Range(solutionPath)
  /\ conn1' = Len(solutionPath)
  /\ pc' = "ensured"
  /\ UNCHANGED <<height, width, start, end, gridIn, gridMid, conn2, mainVars,
                 genVars, toolVars>>

NextWinding == CheckPath \/ WindingIteration \/ CarveWindingPath

SpecWinding == InitWinding /\ [][NextWinding]_vars

(* The cells a walk of n orthogonal moves through passages of g can end on *)
(* when it starts on a cell of S.                                          *)
RECURSIVE WalkEnds(_, _, _)
WalkEnds(g, S, n) ==
  IF n = 0 THEN S
  ELSE WalkEnds(g, UNION {OpenNeighbours(g, c) : c \in S}, n - 1)

(* C27: when ensureValidPath returns, passages join start to end, and the  *)
(* number returned is the number of moves of a walk from start to end      *)
(* through passages, whether the path was there or was carved.             *)
C27_EnsureValidPathLeavesPath ==
  pc = "ensured" =>
    /\ end \in Range(BfsFrom(grid, height, width, start))
    /\ end \in WalkEnds(grid, {start}, conn1)

----------------------------------------------------------------------------
(* Two leaderboard commands running at the same time on one                *)
(* leaderboard.json: node leaderboard/leaderboard.js update <file> and     *)
(* node leaderboard/add_verification_point.js [team_name].  Each command   *)
(* is a process of its own; the file is read with readFileSync and written *)
(* with writeFileSync, and the other process runs between the two calls.   *)
(* runs holds the file before the commands, and for each command its       *)
(* position and the leaderboard it parsed from the file; the update        *)
(* command also whether it wrote, the other command its argument and the   *)
(* names of the teams it logged a point for.                               *)

(* The executionTime of the solutions of the file before the commands.     *)
StoredTime == 2

(* Most answers to 'Enter the number or name of the team'.                 *)
MaxAnswers == 2

(* The files before the commands: no team, one team with one solution,     *)
(* and that team with one verification point.                              *)
StoredLeaderboards ==
  LET Solved(team, mazeName) ==
        updateLeaderboard(<<>>, [team |-> team, mazeName |-> mazeName, path |-> <<>>,
                                 executionTime |-> StoredTime])
  IN {<<>>}
       \cup UNION {{Solved(team, mazeName),
                    addVerificationPoint(team, Solved(team, mazeName))} :
                     team \in TeamNames, mazeName \in DOMAIN MazeFiles}

(* What is typed at the prompts of the interactive mode.                   *)
Answers == {"1", "2"} \cup TeamNames

(* const teamIndex = parseInt(answer) - 1 and the test that follows:       *)
(* parseInt is NaN for a team name of the runs.                            *)
selectTeam(answer, teams) ==
  LET teamIndex == (IF answer = "1" THEN 1 ELSE 2) - 1
  IN IF answer \in {"1", "2"} /\ teamIndex >= 0 /\ teamIndex < Len(teams)
     THEN teams[teamIndex + 1].name
     ELSE answer

(* The index addVerificationPoint finds for teamName, 0 for -1.            *)
verifiedTeam(teamName, teams) ==
  FindIndex(teams, LAMBDA t : ToLowerCase(t.name) = ToLowerCase(teamName))

(* updateLeaderboard(solutionFile) reaches its writeFileSync: the solution *)
(* is valid, and is new for the team or faster than the one stored.        *)
updateWrites(teams, f) ==
  LET Stored(teamIndex) ==
        \/ teamIndex = 0
        \/ LET mazeIndex == FindIndex(teams[teamIndex].solutions,
                                      LAMBDA s : s.mazeName = f.mazeName)
           IN \/ mazeIndex = 0
              \/ f.executionTime < teams[teamIndex].solutions[mazeIndex].executionTime
  IN /\ parseSolution(f).valid
     /\ Stored(FindIndex(teams, LAMBDA t : t.name = f.team))

InitInterleave ==
  /\ pc = "initialized"
  /\ leaderboard \in StoredLeaderboards
  /\ solution \in [team : TeamNames, mazeName : DOMAIN MazeFiles, path : {<<>>},
                   executionTime : 0..MaxTime]
  /\ \E teamName \in TeamNames \cup {""} :
       runs = [before |-> leaderboard,
               update |-> [pc |-> "start", leaderboard |-> <<>>, wrote |-> FALSE],
               verification |-> [pc |-> "start", leaderboard |-> <<>>,
                                 teamName |-> teamName, awarded |-> <<>>]]
  /\ operations = 0
  /\ submitted = [k \in TeamNames \X DOMAIN MazeFiles |-> NoTime]
  /\ mazeGrid = <<>> /\ solutionPath = <<>> /\ validation = <<>>
  /\ maze = NoMaze
  /\ height = 0 /\ width = 0
  /\ grid = {} /\ start = NoCell /\ end = NoCell
  /\ gridIn = {} /\ gridMid = {} /\ conn1 = 0 /\ conn2 = 0
  /\ attempts = 0 /\ branch = "none" /\ file = NoMaze
  /\ connectivityInfo = 0 /\ accessibilityInfo = 0 /\ finalCheck = 0
  /\ artifacts = {} /\ rng = <<0>> /\ walls = <<>>

(* The variables the two commands leave alone.                             *)
interleaveUnchanged ==
  <<fnVars, mainVars, genVars, mazeGrid, solutionPath, solution, validation, submitted>>

(* updateLeaderboard up to 'Read the current leaderboard': an invalid      *)
(* solution returns before the file is read.                               *)
UpdateRead ==
  /\ runs.update.pc = "start"
  /\ runs' = [runs EXCEPT !.update =
                IF parseSolution(solution).valid
                THEN [pc |-> "read", leaderboard |-> leaderboard, wrote |-> FALSE]
                ELSE [pc |-> "done", leaderboard |-> <<>>, wrote |-> FALSE]]
  /\ pc' = "UpdateRead"
  /\ UNCHANGED <<leaderboard, operations, interleaveUnchanged>>

(* The rest of updateLeaderboard: the leaderboard it read is changed and   *)
(* written back, or the function returns because the stored solution is    *)
(* faster.                                                                 *)
UpdateWrite ==
  /\ runs.update.pc = "read"
  /\ IF updateWrites(runs.update.leaderboard, solution)
     THEN /\ leaderboard' = updateLeaderboard(runs.update.leaderboard, solution)
          /\ runs' = [runs EXCEPT !.update.pc = "done", !.update.wrote = TRUE]
     ELSE /\ leaderboard' = leaderboard
          /\ runs' = [runs EXCEPT !.update.pc = "done"]
  /\ pc' = "UpdateWrite"
  /\ UNCHANGED <<operations, interleaveUnchanged>>

(* main of add_verification_point.js up to the branch on the argument:     *)
(* readLeaderboard, then the team of the argument or the prompt.           *)
VerificationRead ==
  /\ runs.verification.pc = "start"
  /\ runs' = [runs EXCEPT !.verification.leaderboard = leaderboard,
                          !.verification.pc =
                            IF runs.verification.teamName # "" THEN "argument"
                            ELSE "question"]
  /\ pc' = "VerificationRead"
  /\ UNCHANGED <<leaderboard, operations, interleaveUnchanged>>

(* if (addVerificationPoint(teamName, leaderboard))                        *)
(* writeLeaderboard(leaderboard), on the leaderboard the command read,     *)
(* and the position the command goes to.                                   *)
AddAndWrite(teamName, next) ==
  LET teams == runs.verification.leaderboard
      Found(teamIndex) ==
        IF teamIndex = 0
        THEN /\ leaderboard' = leaderboard
             /\ runs' = [runs EXCEPT !.verification.pc = next]
        ELSE /\ leaderboard' = addVerificationPoint(teamName, teams)
             /\ runs' = [runs EXCEPT !.verification.pc = next,
                                     !.verification.leaderboard = leaderboard',
                                     !.verification.awarded =
                                       Append(@, teams[teamIndex].name)]
  IN Found(verifiedTeam(teamName, teams))

(* The branch of main for a team name given as argument.                   *)
VerificationArgument ==
  /\ runs.verification.pc = "argument"
  /\ AddAndWrite(runs.verification.teamName, "done")
  /\ pc' = "VerificationArgument"
  /\ UNCHANGED <<operations, interleaveUnchanged>>

(* The callback of the first question of selectTeamInteractive.            *)
VerificationAnswer ==
  /\ runs.verification.pc = "question"
  /\ \E answer \in Answers :
       AddAndWrite(selectTeam(answer, runs.verification.leaderboard), "another")
  /\ operations' = operations + 1
  /\ pc' = "VerificationAnswer"
  /\ UNCHANGED interleaveUnchanged

(* The callback of 'Add another verification point? (y/n)': 'y' reads the  *)
(* file again and asks again.                                              *)
VerificationAnother ==
  /\ runs.verification.pc = "another"
  /\ \E y \in BOOLEAN :
       IF y
       THEN /\ operations < MaxAnswers
            /\ runs' = [runs EXCEPT !.verification.leaderboard = leaderboard,
                                    !.verification.pc = "question"]
       ELSE runs' = [runs EXCEPT !.verification.pc = "done"]
  /\ pc' = "VerificationAnother"
  /\ UNCHANGED <<leaderboard, operations, interleaveUnchanged>>

NextInterleave ==
  \/ UpdateRead
  \/ UpdateWrite
  \/ VerificationRead
  \/ VerificationArgument
  \/ VerificationAnswer
  \/ VerificationAnother

SpecInterleave == InitInterleave /\ [][NextInterleave]_vars

(* The verification points of the team called name in teams, 0 when there  *)
(* is no such team.                                                        *)
VerificationPointsOf(teams, name) ==
  IF \E i \in 1..Len(teams) : teams[i].name = name
  THEN teams[CHOOSE i \in 1..Len(teams) : teams[i].name = name].verificationPoints
  ELSE 0

(* The file holds the solution of solution file f for its team and maze.   *)
HoldsSolution(teams, f) ==
  \E i \in 1..Len(teams) :
    /\ teams[i].name = f.team
    /\ \E j \in 1..Len(teams[i].solutions) :
         /\ teams[i].solutions[j].mazeName = f.mazeName
         /\ teams[i].solutions[j].executionTime = f.executionTime

(* C30: when an update command and an add_verification_point command have  *)
(* both ended, in whatever order their reads and writes of                 *)
(* leaderboard.json took place, the file holds the solution the update     *)
(* command wrote and every verification point the other command added.     *)
C30_NoUpdateLost ==
  (runs.update.pc = "done" /\ runs.verification.pc = "done") =>
    /\ runs.update.wrote => HoldsSolution(leaderboard, solution)
    /\ \A name \in TeamNames :
         VerificationPointsOf(leaderboard, name)
           >= VerificationPointsOf(runs.before, name)
                + Len(SelectSeq(runs.verification.awarded, LAMBDA n : n = name))
====
